---- MODULE Spec2Model ----
(***************************************************************************)
(* Meeting Buddy Pro: the backend's meeting lifecycle (storage.js and the  *)
(* Express handlers), the diarization job bridge (runDiarization and       *)
(* handleDiarization) and the export rewriters that apply speaker names.   *)
(***************************************************************************)
EXTENDS Integers, Sequences, FiniteSets, TLC

\* ------------------------------------------------------------------ bounds

\* External processes in flight at once.
MaxJobs == 2
\* Lines of captured standard output (SpecResolve).
MaxLines == 3

\* ------------------------------------------------------------- JS / SQL values

\* SQL NULL and JS undefined / null, for text-valued columns and fields.
NULL == "<null>"
\* The same for identities (speaker and segment ids are numbers in this model).
NoId == 0

Falsy(text) == text \in {NULL, ""}

\* The lifecycle specification follows one meeting: every statement of the
\* handlers is restricted to the rows of the meeting addressed.
Meetings == {1}

Lifecycle == {"pending", "processing", "done", "failed"}

SpeakerLabel(index) == "Speaker " \o ToString(index)

\* ------------------------------------------------------------- JSON values

\* JSON.parse of a line or a file gives an object, a truthy value that is no
\* object (a number, a string, an array) or a falsy value (null, 0, false, "").
Undefined == [kind |-> "undefined"]
JsonFalsy == [kind |-> "falsy"]
JsonScalar == [kind |-> "scalar"]

Truthy(value) == value.kind \in {"object", "scalar"}

SpeakerEntry(label, displayName) ==
  [valid |-> TRUE, label |-> label, displayName |-> displayName,
   originalLabel |-> NULL]
\* A speakers[] entry that is null: reading its .label raises a TypeError.
NullEntry ==
  [valid |-> FALSE, label |-> NULL, displayName |-> NULL, originalLabel |-> NULL]

SegmentEntry(id, speakerLabel, speakerId) ==
  [id |-> id, startMs |-> 0, endMs |-> 1200, transcript |-> "hello",
   speakerLabel |-> speakerLabel, speakerId |-> speakerId,
   speakerDisplayName |-> NULL, originalSpeakerLabel |-> NULL]

\* One entry of the label-keyed speakerStats object, in key order.
StatsEntry(key, words) ==
  [key |-> key, originalLabel |-> NULL, words |-> words]

FullObject(status, speakerList, segmentList, stats) ==
  [kind |-> "object", status |-> status, speakers |-> speakerList,
   segments |-> segmentList, speakerStats |-> stats,
   updatedSpeakerNamesAt |-> NULL]

ResultObject(status, speakerList, segmentList) ==
  FullObject(status, speakerList, segmentList, <<>>)

\* A speakerId the engine writes into a segment: no row of the speakers table
\* carries it, the rows' identities being drawn by randomUUID().
ForeignSpeaker == 9

\* The analysis results the external process is taken to produce.
EnginePayloads ==
  { ResultObject(NULL,
                 <<SpeakerEntry("Speaker 1", NULL), SpeakerEntry("Speaker 2", "Ann")>>,
                 <<SegmentEntry(NoId, "Speaker 1", NoId), SegmentEntry(NoId, "Speaker 9", NoId)>>),
    ResultObject("completed", <<>>, <<>>),
    ResultObject(NULL, <<>>, <<>>),
    ResultObject(NULL, <<SpeakerEntry("Speaker 1", NULL)>>, <<>>),
    ResultObject(NULL, <<SpeakerEntry("Speaker 1", NULL)>>,
                 <<SegmentEntry(NoId, "Speaker 1", ForeignSpeaker)>>),
    ResultObject(NULL, <<SpeakerEntry(NULL, NULL)>>,
                 <<SegmentEntry(101, "Speaker 1", NoId), SegmentEntry(101, "Speaker 1", NoId)>>) }

\* ------------------------------------------------------------- captured output

BlankLine == [kind |-> "blank", value |-> Undefined]
NoiseLine == [kind |-> "noise", value |-> Undefined]
JsonLine(value) == [kind |-> "json", value |-> value]

\* Standard output of the jobs of the lifecycle specification.
JobStdouts ==
  { <<>>,
    <<NoiseLine>>,
    <<JsonLine(JsonScalar), JsonLine(JsonFalsy)>> }
  \cup { <<NoiseLine, JsonLine(p), BlankLine>> : p \in EnginePayloads }

\* Standard error: empty, or a line of diagnostic text.
TraceLine == [kind |-> "trace", value |-> Undefined]
Stderrs == {<<>>, <<TraceLine>>}

\* What a process is taken to leave behind: exit code, stdout, stderr.
Run(code, stdout, stderr) == [code |-> code, stdout |-> stdout, stderr |-> stderr]

EngineRuns ==
  { Run(0, out, <<>>) : out \in JobStdouts }
  \cup { Run(0, <<NoiseLine>>, <<TraceLine>>),
         Run(1, <<>>, <<TraceLine>>),
         Run(1, <<NoiseLine>>, <<>>),
         Run(2, <<NoiseLine>>, <<TraceLine>>) }
  \cup { Run(1, <<NoiseLine, JsonLine(p), BlankLine>>, <<>>) :
           p \in {q \in EnginePayloads : Len(q.speakers) = 2} }

\* The path multer gives a meeting's upload; a client may name it in POST /end.
UploadPath(meetingId) == "audio/" \o ToString(meetingId)
AudioPaths == {UploadPath(m) : m \in Meetings}

WhisperModels == {NULL, "tiny"}

\* ------------------------------------------------------------------ state

VARIABLES
  meetings,     \* meetings table: id -> [status, startedAt, endedAt, audioFilePath]
  speakers,     \* speakers table, in insertion order
  segments,     \* segments table, in insertion order
  audioFiles,   \* the audio paths that exist on disk
  outDirs,      \* the meetings whose output directory exists
  jsonFile,     \* diarization.json of each meeting's output directory
  microtasks,   \* queued handleDiarization calls
  running,      \* external processes in flight, per meeting
  exports,      \* transcript.txt, segments.srt, segments.csv of each meeting
  clock,        \* the wall clock, in ticks
  shell,        \* the Electron main process: model selection and its side effects
  client,       \* the renderer: what the page holds and shows
  last          \* the last operation and what it saw

vars == <<meetings, speakers, segments, audioFiles, outDirs, jsonFile,
          microtasks, running, exports, clock, shell, client, last>>

\* What the lifecycle's handlers never touch.
exportVars == <<exports, clock, shell, client>>

\* The desktop side while the specification at hand leaves it out.
NoShell == [op |-> "none"]
NoClient == [op |-> "none"]

AbsentFile == [kind |-> "absent"]
GarbageFile == [kind |-> "garbage"]
TextFile(content) == [kind |-> "text", content |-> content]
\* A file that exists and that readFileSync cannot read, and one that
\* writeFileSync cannot write.
UnreadableFile == [kind |-> "unreadable"]
ReadOnlyFile(content) == [kind |-> "readonly", content |-> content]

\* An output directory without its three text exports.
NoExports == [txt |-> AbsentFile, srt |-> AbsentFile, csv |-> AbsentFile]

NoLast ==
  [op |-> "none", meetingId |-> 0, prior |-> NULL, audio |-> NULL,
   code |-> 0, stdout |-> <<>>, stderr |-> <<>>,
   error |-> NULL, diag |-> <<>>, source |-> NULL, payload |-> Undefined,
   outcome |-> NULL, files |-> <<>>, attempted |-> <<>>, updated |-> <<>>,
   items |-> <<>>, count |-> 0,
   env |-> <<>>, options |-> <<>>, args |-> <<>>, seen |-> <<>>]

\* ------------------------------------------------------------- storage.js

Ids(table) == {table[i].id : i \in DOMAIN table}

\* randomUUID(): an identity no row of the table carries.
FreshId(used) == CHOOSE id \in 1..(Cardinality(used) + 1) : id \notin used

SpeakersOf(table, meetingId) ==
  SelectSeq(table, LAMBDA row : row.meetingId = meetingId)

\* insertSpeakerStmt.run for each item in turn; a null item raises a TypeError.
RECURSIVE InsertItems(_, _, _, _, _)
InsertItems(table, meetingId, items, index, used) ==
  IF index > Len(items) THEN [threw |-> FALSE, table |-> table]
  ELSE IF ~items[index].valid THEN [threw |-> TRUE, table |-> table]
  ELSE LET label == IF items[index].label = NULL
                    THEN SpeakerLabel(index) ELSE items[index].label
           displayName == IF items[index].displayName = NULL
                          THEN label ELSE items[index].displayName
           id == FreshId(used)
           row == [id |-> id, meetingId |-> meetingId, label |-> label,
                   displayName |-> displayName]
       IN InsertItems(Append(table, row), meetingId, items, index + 1,
                      used \cup {id})

\* DELETE FROM speakers WHERE meeting_id = ?, with the segments' foreign key
\* ON DELETE SET NULL.
DeleteSpeakers(speakerTable, meetingId) ==
  SelectSeq(speakerTable, LAMBDA row : row.meetingId # meetingId)

\* A variant without the foreign key's ON DELETE SET NULL.
KeepSpeakerRefs(segmentTable, speakerTable, meetingId) == segmentTable

NullifySpeakerRefs(segmentTable, speakerTable, meetingId) ==
  LET gone == Ids(SpeakersOf(speakerTable, meetingId))
  IN [i \in DOMAIN segmentTable |->
        IF segmentTable[i].speakerId \in gone
        THEN [segmentTable[i] EXCEPT !.speakerId = NoId]
        ELSE segmentTable[i]]

\* A variant whose fallback for a count that is not positive is one speaker.
CountItemsDefaultingToOne(count) ==
  LET safeCount == IF count > 0 THEN count ELSE 1
  IN [index \in 1..safeCount |-> SpeakerEntry(SpeakerLabel(index), NULL)]

CountItems(count) ==
  LET safeCount == IF count > 0 THEN count ELSE 2
  IN [index \in 1..safeCount |-> SpeakerEntry(SpeakerLabel(index), NULL)]

\* A variant that inserts an empty list as it is, with no default speaker.
ResetSpeakersInternalAsGiven(speakerTable, segmentTable, meetingId, items) ==
  LET inserted == InsertItems(DeleteSpeakers(speakerTable, meetingId),
                              meetingId, items, 1,
                              Ids(DeleteSpeakers(speakerTable, meetingId)))
  IN IF inserted.threw
     THEN [threw |-> TRUE, speakers |-> speakerTable, segments |-> segmentTable]
     ELSE [threw |-> FALSE, speakers |-> inserted.table,
           segments |-> NullifySpeakerRefs(segmentTable, speakerTable, meetingId)]

\* resetSpeakersInternal inside its transaction: a throw rolls everything back.
\* `items` is the array given, or the entries a count stands for.
ResetSpeakersInternal(speakerTable, segmentTable, meetingId, items) ==
  LET list == IF Len(items) > 0 THEN items
              ELSE <<SpeakerEntry("Speaker 1", NULL)>>
      inserted == InsertItems(DeleteSpeakers(speakerTable, meetingId),
                              meetingId, list, 1,
                              Ids(DeleteSpeakers(speakerTable, meetingId)))
  IN IF inserted.threw
     THEN [threw |-> TRUE, speakers |-> speakerTable, segments |-> segmentTable]
     ELSE [threw |-> FALSE, speakers |-> inserted.table,
           segments |-> NullifySpeakerRefs(segmentTable, speakerTable, meetingId)]

\* insertSegment.run for each segment in turn: the primary key and the
\* speaker_id foreign key are checked by the database.
RECURSIVE InsertSegments(_, _, _, _, _)
InsertSegments(table, speakerTable, meetingId, list, index) ==
  IF index > Len(list) THEN [threw |-> FALSE, table |-> table]
  ELSE LET id == IF list[index].id = NoId THEN FreshId(Ids(table))
                 ELSE list[index].id
           row == [id |-> id, meetingId |-> meetingId,
                   speakerId |-> list[index].speakerId,
                   startMs |-> list[index].startMs, endMs |-> list[index].endMs,
                   transcript |-> list[index].transcript]
       IN IF id \in Ids(table)
             \/ (row.speakerId # NoId /\ row.speakerId \notin Ids(speakerTable))
          THEN [threw |-> TRUE, table |-> table]
          ELSE InsertSegments(Append(table, row), speakerTable, meetingId, list,
                              index + 1)

\* storeSegments: delete the meeting's segments and insert the new ones, in one
\* transaction.
StoreSegments(segmentTable, speakerTable, meetingId, list) ==
  LET kept == SelectSeq(segmentTable, LAMBDA row : row.meetingId # meetingId)
      inserted == InsertSegments(kept, speakerTable, meetingId, list, 1)
  IN IF inserted.threw THEN [threw |-> TRUE, segments |-> segmentTable]
     ELSE [threw |-> FALSE, segments |-> inserted.table]

\* A variant of endMeeting whose UPDATE leaves the status column alone.
EndMeetingRowKeepingStatus(row, audioFilePath) ==
  [row EXCEPT !.endedAt = TRUE,
              !.audioFilePath = IF audioFilePath = NULL THEN @ ELSE audioFilePath]

\* endMeeting's UPDATE: ended_at and audio_file_path by COALESCE, status processing.
EndMeetingRow(row, audioFilePath) ==
  [row EXCEPT !.endedAt = TRUE,
              !.audioFilePath = IF audioFilePath = NULL THEN @ ELSE audioFilePath,
              !.status = "processing"]

\* A variant whose UPDATE leaves a meeting that is done as it is.
UpdateMeetingStatusUnlessDone(table, meetingId, status) ==
  [table EXCEPT ![meetingId].status = IF @ = "done" THEN @ ELSE status]

UpdateMeetingStatus(table, meetingId, status) ==
  [table EXCEPT ![meetingId].status = status]

\* ------------------------------------------------------------- runDiarization

\* The promise's executor: the audio check, then mkdir and spawn.
RunDiarizationLaunch(audioPath, files, spawnOk) ==
  IF Falsy(audioPath) \/ audioPath \notin files
  THEN [error |-> "AudioNotFound", mkdir |-> FALSE, spawned |-> FALSE]
  ELSE IF ~spawnOk
  THEN [error |-> "LaunchFailure", mkdir |-> TRUE, spawned |-> FALSE]
  ELSE [error |-> NULL, mkdir |-> TRUE, spawned |-> TRUE]

\* A variant of the "close" handler that reports stdout ahead of stderr.
RunDiarizationClosePreferringStdout(code, stdout, stderr) ==
  IF code # 0
  THEN [ok |-> FALSE, diag |-> IF stdout # <<>> THEN stdout ELSE stderr,
        stdout |-> <<>>]
  ELSE [ok |-> TRUE, diag |-> <<>>, stdout |-> stdout]

\* The "close" handler: reject unless the exit code is 0.
RunDiarizationClose(code, stdout, stderr) ==
  IF code # 0
  THEN [ok |-> FALSE, diag |-> IF stderr # <<>> THEN stderr ELSE stdout,
        stdout |-> <<>>]
  ELSE [ok |-> TRUE, diag |-> <<>>, stdout |-> stdout]

\* ------------------------------------------------------------- handleDiarization

\* A variant that creates the output directory before it looks for the audio.
LaunchWithEarlyMkdir(audioPath, files, spawnOk) ==
  IF Falsy(audioPath) \/ audioPath \notin files
  THEN [error |-> "AudioNotFound", mkdir |-> TRUE, spawned |-> FALSE]
  ELSE RunDiarizationLaunch(audioPath, files, spawnOk)

\* handleDiarization up to its await: its own checks of the audio path, then
\* runDiarization.
HandleDiarizationLaunch(audioPath, files, spawnOk) ==
  IF Falsy(audioPath) \/ audioPath \notin files
  THEN [error |-> "AudioNotFound", mkdir |-> FALSE, spawned |-> FALSE]
  ELSE RunDiarizationLaunch(audioPath, files, spawnOk)

NonBlank(lines) == SelectSeq(lines, LAMBDA line : line.kind # "blank")

\* The scan of the non-blank lines from the last to the first: the first line
\* JSON.parse accepts ends it.
RECURSIVE ScanLines(_, _)
ScanLines(lines, index) ==
  IF index < 1 THEN Undefined
  ELSE IF lines[index].kind = "json" THEN lines[index].value
  ELSE ScanLines(lines, index - 1)

\* The payload of a finished process: from stdout, else from diarization.json.
ExtractPayload(stdout, file) ==
  LET lines == NonBlank(stdout)
      scanned == ScanLines(lines, Len(lines))
  IN IF Truthy(scanned)
     THEN [error |-> NULL, payload |-> scanned, source |-> "stdout"]
     ELSE IF file.kind = "absent"
     THEN [error |-> "PayloadMissing", payload |-> scanned, source |-> NULL]
     ELSE IF file.kind = "garbage"
     THEN [error |-> "SyntaxError", payload |-> scanned, source |-> "file"]
     ELSE IF ~Truthy(file)
     THEN [error |-> "PayloadMissing", payload |-> file, source |-> "file"]
     ELSE [error |-> NULL, payload |-> file, source |-> "file"]

\* labelToSpeakerId: a Map built from the roster in order, a later row of the
\* same label replacing an earlier one.
LabelToSpeakerId(roster, label) ==
  LET hits == {i \in DOMAIN roster : roster[i].label = label}
  IN IF hits = {} THEN NoId
     ELSE roster[CHOOSE i \in hits : \A j \in hits : j <= i].id

NormalizedSegments(list, roster) ==
  [i \in DOMAIN list |->
     [list[i] EXCEPT !.speakerId =
        IF @ # NoId THEN @ ELSE LabelToSpeakerId(roster, list[i].speakerLabel)]]

HasItems(payload, field) ==
  payload.kind = "object" /\ Len(payload[field]) > 0

\* What a payload makes of the tables: resetSpeakers, then storeSegments.
PersistPayload(speakerTable, segmentTable, meetingId, payload) ==
  IF ~HasItems(payload, "speakers")
  THEN [threw |-> FALSE, speakers |-> speakerTable, segments |-> segmentTable]
  ELSE
    LET reset == ResetSpeakersInternal(speakerTable, segmentTable, meetingId,
                                       payload.speakers)
    IN IF reset.threw \/ ~HasItems(payload, "segments") THEN reset
       ELSE LET stored == StoreSegments(reset.segments, reset.speakers, meetingId,
                            NormalizedSegments(payload.segments,
                                               SpeakersOf(reset.speakers, meetingId)))
            IN [threw |-> stored.threw, speakers |-> reset.speakers,
                segments |-> stored.segments]

\* nextStatus: the payload's status when it is a non-empty string, else done.
NextStatus(payload) ==
  IF payload.kind = "object" /\ ~Falsy(payload.status) THEN payload.status
  ELSE "done"

\* A variant whose catch block handles the failed process only.
JobStatusOfProcessOnly(error, payload) ==
  IF error = "ProcessFailure" THEN "failed" ELSE NextStatus(payload)

\* The status a finished job writes: failed from the catch block, else nextStatus.
JobStatus(error, payload) ==
  IF error # NULL THEN "failed" ELSE NextStatus(payload)

\* ------------------------------------------------------------- lifecycle

RECURSIVE SumRunning(_, _)
SumRunning(count, ids) ==
  IF ids = {} THEN 0
  ELSE LET id == CHOOSE x \in ids : TRUE
       IN count[id] + SumRunning(count, ids \ {id})

InFlight == SumRunning(running, Meetings)

Created == DOMAIN meetings

\* No request handler runs while a microtask is queued.
Idle == microtasks = <<>>

Job(meetingId, audioPath, whisperModel) ==
  [meetingId |-> meetingId, audioPath |-> audioPath, whisperModel |-> whisperModel]

Init ==
  /\ meetings = <<>>
  /\ speakers = <<>>
  /\ segments = <<>>
  /\ audioFiles = {}
  /\ outDirs = {}
  /\ jsonFile = [m \in Meetings |-> AbsentFile]
  /\ microtasks = <<>>
  /\ running = [m \in Meetings |-> 0]
  /\ exports = [m \in Meetings |-> NoExports]
  /\ clock = 0
  /\ shell = NoShell
  /\ client = NoClient
  /\ last = NoLast

\* POST /api/meetings -> storage.createMeeting
CreateMeeting(speakerCount) ==
  LET meetingId == Len(meetings) + 1
      safeCount == IF speakerCount # 0 THEN speakerCount ELSE 2
      reset == ResetSpeakersInternal(speakers, segments, meetingId,
                                     CountItems(safeCount))
  IN /\ Idle
     /\ meetingId \in Meetings
     /\ meetings' = Append(meetings,
                           [status |-> "pending", startedAt |-> FALSE,
                            endedAt |-> FALSE, audioFilePath |-> NULL])
     /\ speakers' = reset.speakers
     /\ segments' = reset.segments
     /\ last' = [NoLast EXCEPT !.op = "create", !.meetingId = meetingId,
                               !.count = speakerCount]
     /\ UNCHANGED <<exportVars, audioFiles, outDirs, jsonFile, microtasks, running>>

\* POST /api/meetings/:meetingId/start -> storage.startMeeting
StartMeeting(meetingId) ==
  /\ Idle
  /\ meetingId \in Created
  /\ meetings' = [meetings EXCEPT ![meetingId].startedAt = TRUE]
  /\ last' = [NoLast EXCEPT !.op = "start", !.meetingId = meetingId]
  /\ UNCHANGED <<exportVars, speakers, segments, audioFiles, outDirs, jsonFile, microtasks,
                 running>>

\* A variant of POST /end that falls back to the stored audio path.
PostEndWithStoredAudio(meetingId, audioFilePath) ==
  /\ Idle
  /\ meetingId \in Created
  /\ InFlight < MaxJobs
  /\ LET ended == [meetings EXCEPT
                     ![meetingId] = EndMeetingRow(@, audioFilePath)]
         audioPath == ended[meetingId].audioFilePath
     IN IF ~Falsy(audioPath)
        THEN /\ meetings' = ended
             /\ microtasks' = Append(microtasks, Job(meetingId, audioPath, NULL))
        ELSE /\ meetings' = UpdateMeetingStatus(ended, meetingId, "failed")
             /\ microtasks' = microtasks
  /\ last' = [NoLast EXCEPT !.op = "end", !.meetingId = meetingId,
                            !.prior = meetings[meetingId].status,
                            !.audio = audioFilePath]
  /\ UNCHANGED <<exportVars, speakers, segments, audioFiles, outDirs, jsonFile, running>>

\* POST /api/meetings/:meetingId/end
PostEnd(meetingId, audioFilePath) ==
  /\ Idle
  /\ meetingId \in Created
  /\ InFlight < MaxJobs
  /\ LET ended == [meetings EXCEPT
                     ![meetingId] = EndMeetingRow(@, audioFilePath)]
     IN IF ~Falsy(audioFilePath)
        THEN /\ meetings' = ended
             /\ microtasks' = Append(microtasks,
                                     Job(meetingId, audioFilePath, NULL))
        ELSE /\ meetings' = UpdateMeetingStatus(ended, meetingId, "failed")
             /\ microtasks' = microtasks
  /\ last' = [NoLast EXCEPT !.op = "end", !.meetingId = meetingId,
                            !.prior = meetings[meetingId].status,
                            !.audio = audioFilePath]
  /\ UNCHANGED <<exportVars, speakers, segments, audioFiles, outDirs, jsonFile, running>>

\* POST /api/meetings/:meetingId/audio, an audio file having been uploaded
PostAudio(meetingId) ==
  LET audioPath == UploadPath(meetingId)
  IN /\ Idle
     /\ meetingId \in Created
     /\ InFlight < MaxJobs
     /\ audioFiles' = audioFiles \cup {audioPath}
     /\ meetings' = [meetings EXCEPT ![meetingId] = EndMeetingRow(@, audioPath)]
     /\ microtasks' = Append(microtasks, Job(meetingId, audioPath, NULL))
     /\ last' = [NoLast EXCEPT !.op = "upload", !.meetingId = meetingId,
                               !.prior = meetings[meetingId].status,
                               !.audio = audioPath]
     /\ UNCHANGED <<exportVars, speakers, segments, outDirs, jsonFile, running>>

\* POST /api/meetings/:meetingId/reprocess: what the handler does to the server.
PostReprocessHandler(meetingId, whisperModel) ==
  LET audioPath == meetings[meetingId].audioFilePath
      rejected == Falsy(audioPath) \/ audioPath \notin audioFiles
  IN /\ Idle
     /\ meetingId \in Created
     /\ InFlight < MaxJobs
     /\ IF rejected
        THEN UNCHANGED <<meetings, microtasks>>
        ELSE /\ meetings' = UpdateMeetingStatus(meetings, meetingId, "processing")
             /\ microtasks' = Append(microtasks,
                                     Job(meetingId, audioPath, whisperModel))
     /\ last' = [NoLast EXCEPT !.op = "reprocess", !.meetingId = meetingId,
                               !.prior = meetings[meetingId].status,
                               !.audio = audioPath,
                               !.error = IF Falsy(audioPath) THEN "NoAudio"
                                         ELSE IF rejected THEN "AudioNotFound"
                                         ELSE NULL]
     /\ UNCHANGED <<speakers, segments, audioFiles, outDirs, jsonFile, running>>

\* POST /api/meetings/:meetingId/reprocess
PostReprocess(meetingId, whisperModel) ==
  /\ PostReprocessHandler(meetingId, whisperModel)
  /\ UNCHANGED exportVars

\* A variant that queues the job again when its process cannot be started.
HandleDiarizationStartRetrying(spawnOk) ==
  /\ microtasks # <<>>
  /\ LET job == Head(microtasks)
         meetingId == job.meetingId
         launch == HandleDiarizationLaunch(job.audioPath, audioFiles, spawnOk)
     IN /\ microtasks' = IF launch.error = "LaunchFailure"
                         THEN Append(Tail(microtasks), job)
                         ELSE Tail(microtasks)
        /\ outDirs' = IF launch.mkdir THEN outDirs \cup {meetingId} ELSE outDirs
        /\ running' = IF launch.spawned
                      THEN [running EXCEPT ![meetingId] = @ + 1]
                      ELSE running
        /\ meetings' = IF launch.error # NULL
                       THEN UpdateMeetingStatus(meetings, meetingId, "failed")
                       ELSE meetings
        /\ last' = [NoLast EXCEPT !.op = "launch", !.meetingId = meetingId,
                                  !.error = launch.error,
                                  !.outcome = IF launch.error # NULL
                                              THEN "failed" ELSE NULL]
  /\ UNCHANGED <<exportVars, speakers, segments, audioFiles, jsonFile>>

\* The queued microtask: handleDiarization up to its await, runDiarization's
\* executor included; a process that cannot be started rejects at once.
HandleDiarizationStart(spawnOk) ==
  /\ microtasks # <<>>
  /\ LET job == Head(microtasks)
         meetingId == job.meetingId
         launch == HandleDiarizationLaunch(job.audioPath, audioFiles, spawnOk)
     IN /\ microtasks' = Tail(microtasks)
        /\ outDirs' = IF launch.mkdir THEN outDirs \cup {meetingId} ELSE outDirs
        /\ running' = IF launch.spawned
                      THEN [running EXCEPT ![meetingId] = @ + 1]
                      ELSE running
        /\ meetings' = IF launch.error # NULL
                       THEN UpdateMeetingStatus(meetings, meetingId, "failed")
                       ELSE meetings
        /\ last' = [NoLast EXCEPT !.op = "launch", !.meetingId = meetingId,
                                  !.error = launch.error,
                                  !.outcome = IF launch.error # NULL
                                              THEN "failed" ELSE NULL]
  /\ UNCHANGED <<exportVars, speakers, segments, audioFiles, jsonFile>>

\* The process's "close" event, and handleDiarization from its await to its end.
ProcessClose(meetingId, code, stdout, stderr) ==
  /\ Idle
  /\ running[meetingId] > 0
  /\ running' = [running EXCEPT ![meetingId] = @ - 1]
  /\ LET closed == RunDiarizationClose(code, stdout, stderr)
         extracted == ExtractPayload(closed.stdout, jsonFile[meetingId])
         persisted == PersistPayload(speakers, segments, meetingId,
                                     extracted.payload)
         error == IF ~closed.ok THEN "ProcessFailure"
                  ELSE IF extracted.error # NULL THEN extracted.error
                  ELSE IF persisted.threw THEN "PersistenceError"
                  ELSE NULL
         status == JobStatus(error, extracted.payload)
     IN /\ meetings' = UpdateMeetingStatus(meetings, meetingId, status)
        /\ speakers' = IF closed.ok /\ extracted.error = NULL
                       THEN persisted.speakers ELSE speakers
        /\ segments' = IF closed.ok /\ extracted.error = NULL
                       THEN persisted.segments ELSE segments
        /\ last' = [NoLast EXCEPT !.op = "close", !.meetingId = meetingId,
                                  !.prior = meetings[meetingId].status,
                                  !.code = code, !.stdout = stdout,
                                  !.stderr = stderr, !.error = error,
                                  !.diag = closed.diag,
                                  !.source = IF closed.ok THEN extracted.source
                                             ELSE NULL,
                                  !.payload = IF closed.ok THEN extracted.payload
                                              ELSE Undefined,
                                  !.outcome = status]
  /\ UNCHANGED <<exportVars, audioFiles, outDirs, jsonFile, microtasks>>

\* The running process writes (or half-writes) diarization.json.
EngineWritesJson(meetingId, content) ==
  /\ Idle
  /\ running[meetingId] > 0
  /\ jsonFile[meetingId] # content
  /\ jsonFile' = [jsonFile EXCEPT ![meetingId] = content]
  /\ UNCHANGED <<exportVars, meetings, speakers, segments, audioFiles, outDirs, microtasks,
                 running, last>>

\* An audio file is removed from the disk.
AudioVanishes(audioPath) ==
  /\ Idle
  /\ audioPath \in audioFiles
  /\ audioFiles' = audioFiles \ {audioPath}
  /\ UNCHANGED <<exportVars, meetings, speakers, segments, outDirs, jsonFile, microtasks,
                 running, last>>

EngineFiles ==
  {GarbageFile} \cup {p \in EnginePayloads : Len(p.speakers) = 2}

Next ==
  \/ \E speakerCount \in {0, 1} : CreateMeeting(speakerCount)
  \/ \E m \in Meetings : StartMeeting(m)
  \/ \E m \in Meetings, a \in {NULL, ""} \cup AudioPaths : PostEnd(m, a)
  \/ \E m \in Meetings : PostAudio(m)
  \/ \E m \in Meetings, w \in WhisperModels : PostReprocess(m, w)
  \/ \E spawnOk \in BOOLEAN : HandleDiarizationStart(spawnOk)
  \/ \E m \in Meetings, run \in EngineRuns :
        ProcessClose(m, run.code, run.stdout, run.stderr)
  \/ \E m \in Meetings, content \in EngineFiles : EngineWritesJson(m, content)
  \/ \E a \in AudioPaths : AudioVanishes(a)

Spec == Init /\ [][Next]_vars

\* ------------------------------------------------------------- lifecycle claims

StatusOf(meetingId) == meetings[meetingId].status

JobStarts == {"end", "upload", "reprocess"}

\* C1: in every reachable state every meeting's status is one of pending,
\* processing, done and failed, whatever the analysis result contains.
C1_StatusInLifecycle ==
  \A m \in Created : StatusOf(m) \in Lifecycle

\* C2: a request that starts a job leaves the meeting in processing, whatever
\* its status was, and returns with the job only queued: no process has been
\* launched by the request, and a process is launched only for a meeting whose
\* status is processing.
C2_JobStartSetsProcessing ==
  [][ /\ (microtasks = <<>> /\ microtasks' # <<>>) =>
           /\ last'.op \in JobStarts
           /\ meetings'[Head(microtasks').meetingId].status = "processing"
           /\ running' = running
      /\ (last'.op \in JobStarts /\ last'.error = NULL /\ ~Falsy(last'.audio)
           /\ last' # last) => microtasks' # <<>>
      /\ \A m \in Meetings :
           running'[m] > running[m] => (m \in Created /\ StatusOf(m) = "processing")
    ]_vars

C2_Witness ==
  /\ microtasks # <<>>
  /\ last.op = "reprocess"
  /\ last.prior = "failed"
  /\ StatusOf(last.meetingId) = "processing"

\* C3: a process that exits with code 0, whose payload is extracted and
\* persisted, leaves the meeting in done.
C3_SuccessIsDone ==
  (last.op = "close" /\ last.code = 0 /\ last.error = NULL)
    => StatusOf(last.meetingId) = "done"

JobErrors ==
  {"AudioNotFound", "LaunchFailure", "ProcessFailure", "PayloadMissing",
   "SyntaxError", "PersistenceError"}

C5_MissingAudioStartsNothing ==
  [][ /\ (microtasks # <<>> /\ Head(microtasks).audioPath \notin audioFiles) =>
           /\ outDirs' = outDirs
           /\ running' = running
           /\ last'.error = "AudioNotFound"
      /\ (last'.op = "reprocess" /\ last' # last
           /\ last'.audio \notin audioFiles) =>
           /\ microtasks' = <<>>
           /\ outDirs' = outDirs
           /\ running' = running
    ]_vars

C5_Witness ==
  /\ last.op = "launch"
  /\ last.error = "AudioNotFound"
  /\ outDirs = {}

\* C6: ending a meeting with no audio path leaves it in failed and queues and
\* launches nothing, whatever its status and stored audio path were.
C6_EndWithoutAudioFails ==
  [][ (last'.op = "end" /\ Falsy(last'.audio)) =>
        /\ meetings'[last'.meetingId].status = "failed"
        /\ microtasks' = <<>>
        /\ running' = running
        /\ outDirs' = outDirs
    ]_vars

C6_Witness ==
  /\ last.op = "end"
  /\ last.audio = NULL
  /\ last.prior = "done"
  /\ ~Falsy(meetings[last.meetingId].audioFilePath)
  /\ StatusOf(last.meetingId) = "failed"

\* C7: only exit code 0 is a successful launch; any other exit code fails
\* whatever stdout holds, the failure carries stderr, or stdout when stderr is
\* empty, and the meeting is left in failed.
C7_OnlyExitZeroSucceeds ==
  last.op = "close" =>
    /\ (last.error = "ProcessFailure") <=> (last.code # 0)
    /\ last.code # 0 =>
         /\ StatusOf(last.meetingId) = "failed"
         /\ last.diag = IF last.stderr # <<>> THEN last.stderr ELSE last.stdout
    /\ last.code = 0 => last.diag = <<>>

C7_Witness ==
  /\ last.op = "close"
  /\ last.code # 0
  /\ last.stderr = <<>>
  /\ \E i \in DOMAIN last.stdout : last.stdout[i].kind = "json"
  /\ StatusOf(last.meetingId) = "failed"

\* ------------------------------------------------------------- SpecResolve
\* The resolution of a finished process's output, over every captured stdout
\* of at most MaxLines lines and every state of the result file.

ResolveObject ==
  ResultObject(NULL, <<SpeakerEntry("Speaker 1", NULL)>>, <<>>)

ResolveLines ==
  {BlankLine, NoiseLine, JsonLine(JsonFalsy), JsonLine(JsonScalar),
   JsonLine(ResolveObject), JsonLine(ResultObject("completed", <<>>, <<>>))}

RECURSIVE LinesUpTo(_)
LinesUpTo(length) ==
  IF length = 0 THEN {<<>>}
  ELSE LET shorter == LinesUpTo(length - 1)
       IN shorter \cup {Append(lines, line) :
                          lines \in {l \in shorter : Len(l) = length - 1},
                          line \in ResolveLines}

ResolveFiles == {AbsentFile, GarbageFile, JsonFalsy, ResolveObject}

InitResolve ==
  /\ meetings = <<[status |-> "processing", startedAt |-> TRUE,
                   endedAt |-> TRUE, audioFilePath |-> UploadPath(1)]>>
  /\ speakers = <<>>
  /\ segments = <<>>
  /\ audioFiles = {UploadPath(1)}
  /\ outDirs = {1}
  /\ jsonFile \in [Meetings -> ResolveFiles]
  /\ microtasks = <<>>
  /\ running = [m \in Meetings |-> 0]
  /\ exports = [m \in Meetings |-> NoExports]
  /\ clock = 0
  /\ shell = NoShell
  /\ client = NoClient
  /\ \E stdout \in LinesUpTo(MaxLines) :
       last = [NoLast EXCEPT !.op = "captured", !.meetingId = 1,
                             !.stdout = stdout]

\* handleDiarization's extraction applied to the captured output.
Resolve ==
  /\ last.op = "captured"
  /\ LET extracted == ExtractPayload(last.stdout, jsonFile[last.meetingId])
     IN last' = [last EXCEPT !.op = "resolved", !.error = extracted.error,
                             !.source = extracted.source,
                             !.payload = extracted.payload]
  /\ UNCHANGED <<exportVars, meetings, speakers, segments, audioFiles, outDirs, jsonFile,
                 microtasks, running>>

NextResolve == Resolve

SpecResolve == InitResolve /\ [][NextResolve]_vars

Last(set) == CHOOSE i \in set : \A j \in set : j <= i

\* What the extraction is to give when the lines at `answers` are the ones that
\* parse: the value of the last of them, else the result file, else a failure.
ResolvesTo(answers) ==
  LET file == jsonFile[last.meetingId]
  IN IF answers # {}
     THEN /\ last.error = NULL
          /\ last.source = "stdout"
          /\ last.payload = last.stdout[Last(answers)].value
     ELSE IF file.kind \in {"object", "scalar"}
     THEN /\ last.error = NULL
          /\ last.source = "file"
          /\ last.payload = file
     ELSE last.error # NULL

\* C8: the scan takes the last line that parses, ignoring all earlier lines,
\* reads the result file only when no line parses, and fails when neither
\* gives a payload; "parses" read as JSON.parse accepting the line, or as the
\* line holding a result record.
C8_LastParsingLineWins ==
  last.op = "resolved" =>
    \/ ResolvesTo({i \in DOMAIN last.stdout : last.stdout[i].kind = "json"})
    \/ ResolvesTo({i \in DOMAIN last.stdout :
                     /\ last.stdout[i].kind = "json"
                     /\ last.stdout[i].value.kind = "object"})

\* ------------------------------------------------- speaker names in exports
\* A text export is a sequence of tokens: a label or a name is one token, and
\* so is a line break, a blank, a colon and a comma.

LF == "<LF>"
CRLF == "<CRLF>"
Space == " "
Colon == ":"
Comma == ","
Newlines == {LF, CRLF}
Whitespace == Newlines \cup {Space}

\* String.prototype.trim over the names of this model.
Trim(text) ==
  CASE text = " Alice " -> "Alice"
    [] text = "  " -> ""
    [] OTHER -> text

\* escapeRegExp: the character class of its pattern closes at the first "]",
\* so it rewrites only a metacharacter that "\]" follows; the labels of this
\* model hold no such pair and come out as they went in.
EscapeRegExp(value) == value

\* A Map from label to display name, as the sequence of its entries in
\* insertion order.
MapHas(replacements, key) ==
  \E i \in DOMAIN replacements : replacements[i].label = key

MapGet(replacements, key) ==
  IF MapHas(replacements, key)
  THEN replacements[CHOOSE i \in DOMAIN replacements :
                      replacements[i].label = key].displayName
  ELSE NULL

MapSet(replacements, key, value) ==
  IF MapHas(replacements, key)
  THEN [i \in DOMAIN replacements |->
          IF replacements[i].label = key
          THEN [label |-> key, displayName |-> value] ELSE replacements[i]]
  ELSE Append(replacements, [label |-> key, displayName |-> value])

LineStart(content, index) ==
  index = 1 \/ content[index - 1] \in Newlines

ColonAhead(content, index) ==
  \E colon \in (index + 1)..Len(content) :
    /\ content[colon] = Colon
    /\ \A between \in (index + 1)..(colon - 1) : content[between] \in Whitespace

\* One branch of the compiled pattern: the text it matches, whether the
\* (^|\r?\n) group stands before it and whether the (?=\s*:) lookahead
\* stands after it.
Alternative(text, anchored, lookahead) ==
  [text |-> text, anchored |-> anchored, lookahead |-> lookahead]

\* new RegExp('(^|\\r?\\n)' + source + '(?=\\s*:)', 'g') for the labels of this
\* model. Parentheses in the source form a group around the text they hold,
\* a bar splits the whole pattern in two branches, and an unclosed bracket is
\* a SyntaxError.
CompiledPattern(source) ==
  CASE source = "Speaker (1)" ->
         [valid |-> TRUE, alternatives |-> {Alternative("Speaker 1", TRUE, TRUE)}]
    [] source = "S1|S2" ->
         [valid |-> TRUE,
          alternatives |-> {Alternative("S1", TRUE, FALSE),
                            Alternative("S2", FALSE, TRUE)}]
    [] source = "Speaker [1" -> [valid |-> FALSE, alternatives |-> {}]
    [] OTHER ->
         [valid |-> TRUE, alternatives |-> {Alternative(source, TRUE, TRUE)}]

MatchesAt(content, index, alternative) ==
  /\ content[index] = alternative.text
  /\ alternative.anchored => LineStart(content, index)
  /\ alternative.lookahead => ColonAhead(content, index)

\* output.replace(pattern, (match, prefix) => prefix + displayName): the
\* prefix of a branch without the group is undefined.
ReplaceLabel(content, label, displayName) ==
  LET alternatives == CompiledPattern(EscapeRegExp(label)).alternatives
  IN [index \in DOMAIN content |->
        IF \E a \in alternatives : a.anchored /\ MatchesAt(content, index, a)
        THEN displayName
        ELSE IF \E a \in alternatives : MatchesAt(content, index, a)
        THEN "undefined" \o displayName
        ELSE content[index]]

\* Every pattern replaceSpeakerPrefixes builds compiles.
PatternsCompile(replacements) ==
  \A i \in DOMAIN replacements :
    (~Falsy(replacements[i].displayName)
       /\ replacements[i].displayName # replacements[i].label)
      => CompiledPattern(EscapeRegExp(replacements[i].label)).valid

\* replaceSpeakerPrefixes: one replacement pass per entry of the Map, each on
\* the output of the pass before it.
RECURSIVE ReplaceSpeakerPrefixes(_, _, _)
ReplaceSpeakerPrefixes(content, replacements, index) ==
  IF index > Len(replacements) THEN content
  ELSE LET label == replacements[index].label
           displayName == replacements[index].displayName
           output == IF Falsy(displayName) \/ displayName = label THEN content
                     ELSE ReplaceLabel(content, label, displayName)
       IN ReplaceSpeakerPrefixes(output, replacements, index + 1)

\* What a rewriter hands back, `threw` when it raised an error instead.
Rewritten(threw, changed, file) ==
  [threw |-> threw, changed |-> changed, file |-> file]

ApplySpeakerNamesToTextFile(file, replacements) ==
  IF file.kind = "absent" THEN Rewritten(FALSE, FALSE, file)
  ELSE IF file.kind = "unreadable" \/ ~PatternsCompile(replacements)
  THEN Rewritten(TRUE, FALSE, file)
  ELSE LET nextContent == ReplaceSpeakerPrefixes(file.content, replacements, 1)
       IN IF nextContent = file.content THEN Rewritten(FALSE, FALSE, file)
          ELSE IF file.kind = "readonly" THEN Rewritten(TRUE, FALSE, file)
          ELSE Rewritten(FALSE, TRUE, TextFile(nextContent))

\* original.split(/\r?\n/)
RECURSIVE SplitRows(_, _, _)
SplitRows(content, index, row) ==
  IF index > Len(content) THEN <<row>>
  ELSE IF content[index] \in Newlines
  THEN <<row>> \o SplitRows(content, index + 1, <<>>)
  ELSE SplitRows(content, index + 1, Append(row, content[index]))

\* rows.join(newline)
RECURSIVE JoinRows(_, _, _)
JoinRows(rows, index, newline) ==
  IF index > Len(rows) THEN <<>>
  ELSE IF index = Len(rows) THEN rows[index]
  ELSE rows[index] \o <<newline>> \o JoinRows(rows, index + 1, newline)

RECURSIVE LeadingWhitespace(_, _)
LeadingWhitespace(field, index) ==
  IF index > Len(field) \/ field[index] \notin Whitespace THEN index - 1
  ELSE LeadingWhitespace(field, index + 1)

RECURSIVE TrailingWhitespace(_, _)
TrailingWhitespace(field, index) ==
  IF index < 1 \/ field[index] \notin Whitespace THEN Len(field) - index
  ELSE TrailingWhitespace(field, index - 1)

\* A variant that looks the first token of any row up, the header included.
RewriteRowUntrimmed(row, index, replacements) ==
  IF row # <<>> /\ MapHas(replacements, row[1])
  THEN <<MapGet(replacements, row[1])>> \o Tail(row)
  ELSE row

\* The callback of rows.map in applySpeakerNamesToCsv.
RewriteRow(row, index, replacements) ==
  LET commas == {i \in DOMAIN row : row[i] = Comma}
      commaIndex == CHOOSE i \in commas : \A j \in commas : i <= j
      rawSpeaker == SubSeq(row, 1, commaIndex - 1)
      leading == LeadingWhitespace(rawSpeaker, 1)
      trailing == TrailingWhitespace(rawSpeaker, Len(rawSpeaker))
      trimmedSpeaker == SubSeq(rawSpeaker, leading + 1, Len(rawSpeaker) - trailing)
      nextName == IF Len(trimmedSpeaker) = 1
                  THEN MapGet(replacements, trimmedSpeaker[1]) ELSE NULL
  IN IF index = 1 \/ (\A i \in DOMAIN row : row[i] \in Whitespace) THEN row
     ELSE IF commas = {} THEN row
     ELSE IF Falsy(nextName) \/ nextName = trimmedSpeaker[1] THEN row
     ELSE SubSeq(rawSpeaker, 1, leading) \o <<nextName>>
          \o SubSeq(rawSpeaker, Len(rawSpeaker) - trailing + 1, Len(rawSpeaker))
          \o SubSeq(row, commaIndex, Len(row))

\* A variant that joins the rows with LF whatever the file held.
ApplySpeakerNamesToCsvWithLf(file, replacements) ==
  IF file.kind # "text" THEN Rewritten(file.kind # "absent", FALSE, file)
  ELSE LET rows == SplitRows(file.content, 1, <<>>)
           updated == [index \in DOMAIN rows |->
                         RewriteRow(rows[index], index, replacements)]
       IN IF updated = rows THEN Rewritten(FALSE, FALSE, file)
          ELSE Rewritten(FALSE, TRUE, TextFile(JoinRows(updated, 1, LF)))

ApplySpeakerNamesToCsv(file, replacements) ==
  IF file.kind = "absent" THEN Rewritten(FALSE, FALSE, file)
  ELSE IF file.kind = "unreadable" THEN Rewritten(TRUE, FALSE, file)
  ELSE
    LET original == file.content
        rows == SplitRows(original, 1, <<>>)
        newline == IF \E i \in DOMAIN original : original[i] = CRLF
                   THEN CRLF ELSE LF
        hadTrailingNewline ==
          original # <<>> /\ original[Len(original)] \in Newlines
        updated == [index \in DOMAIN rows |->
                      RewriteRow(rows[index], index, replacements)]
        joined == JoinRows(updated, 1, newline)
        nextContent ==
          IF hadTrailingNewline /\ (joined = <<>> \/ joined[Len(joined)] # newline)
          THEN Append(joined, newline) ELSE joined
    IN IF updated = rows THEN Rewritten(FALSE, FALSE, file)
       ELSE IF file.kind = "readonly" THEN Rewritten(TRUE, FALSE, file)
       ELSE Rewritten(FALSE, TRUE, TextFile(nextContent))

\* The forEach over payload.speakers.
RenamedSpeakers(list, replacements) ==
  [i \in DOMAIN list |->
     LET speaker == list[i]
         originalLabel == IF ~Falsy(speaker.originalLabel)
                          THEN speaker.originalLabel ELSE speaker.label
         nextName == IF ~Falsy(originalLabel)
                     THEN MapGet(replacements, originalLabel) ELSE NULL
     IN IF ~speaker.valid THEN speaker
        ELSE [speaker EXCEPT
                !.originalLabel = IF ~Falsy(originalLabel) /\ Falsy(@)
                                  THEN originalLabel ELSE @,
                !.displayName = IF ~Falsy(nextName) THEN nextName ELSE @]]

\* A variant that looks a segment's name up through the label it shows.
RenamedSegmentsByShownLabel(list, replacements) ==
  [i \in DOMAIN list |->
     LET nextName == MapGet(replacements, list[i].speakerLabel)
     IN [list[i] EXCEPT
           !.originalSpeakerLabel = IF Falsy(@) THEN list[i].speakerLabel ELSE @,
           !.speakerLabel = IF ~Falsy(nextName) THEN nextName ELSE @,
           !.speakerDisplayName = IF ~Falsy(nextName) THEN nextName ELSE @]]

\* The forEach over payload.segments.
RenamedSegments(list, replacements) ==
  [i \in DOMAIN list |->
     LET segment == list[i]
         originalLabel == IF ~Falsy(segment.originalSpeakerLabel)
                          THEN segment.originalSpeakerLabel
                          ELSE segment.speakerLabel
         nextName == IF ~Falsy(originalLabel)
                     THEN MapGet(replacements, originalLabel) ELSE NULL
     IN [segment EXCEPT
           !.originalSpeakerLabel = IF ~Falsy(originalLabel) /\ Falsy(@)
                                    THEN originalLabel ELSE @,
           !.speakerLabel = IF ~Falsy(nextName) THEN nextName ELSE @,
           !.speakerDisplayName = IF ~Falsy(nextName) THEN nextName ELSE @]]

\* value.originalLabel = key, for the entries that carry none.
MarkedStats(stats) ==
  [i \in DOMAIN stats |->
     [stats[i] EXCEPT !.originalLabel = IF Falsy(@) THEN stats[i].key ELSE @]]

StatsTargetKey(entry, replacements) ==
  LET nextName == MapGet(replacements, entry.originalLabel)
  IN IF ~Falsy(nextName) THEN nextName ELSE entry.key

\* updatedStats[targetKey] = value: a key already present keeps its place and
\* takes the new value.
ObjectSet(entries, key, value) ==
  IF \E i \in DOMAIN entries : entries[i].key = key
  THEN [i \in DOMAIN entries |->
          IF entries[i].key = key THEN [value EXCEPT !.key = key]
          ELSE entries[i]]
  ELSE Append(entries, [value EXCEPT !.key = key])

RECURSIVE RekeyedStats(_, _, _, _)
RekeyedStats(stats, replacements, index, updatedStats) ==
  IF index > Len(stats) THEN updatedStats
  ELSE RekeyedStats(stats, replacements, index + 1,
                    ObjectSet(updatedStats,
                              StatsTargetKey(stats[index], replacements),
                              stats[index]))

StatsChanged(stats, replacements) ==
  \E i \in DOMAIN stats :
    StatsTargetKey(MarkedStats(stats)[i], replacements) # stats[i].key

RenamedStats(stats, replacements) ==
  IF StatsChanged(stats, replacements)
  THEN RekeyedStats(MarkedStats(stats), replacements, 1, <<>>)
  ELSE MarkedStats(stats)

\* A variant that stamps and writes the file whether or not a field changed.
ApplySpeakerNamesToJsonStamping(file, replacements, now) ==
  IF file.kind \in {"absent", "garbage", "scalar"}
  THEN [threw |-> FALSE, changed |-> FALSE, file |-> file]
  ELSE IF file.kind = "falsy"
  THEN [threw |-> TRUE, changed |-> FALSE, file |-> file]
  ELSE [threw |-> FALSE, changed |-> TRUE,
        file |-> [file EXCEPT
                    !.speakers = RenamedSpeakers(@, replacements),
                    !.segments = RenamedSegments(@, replacements),
                    !.speakerStats = RenamedStats(@, replacements),
                    !.updatedSpeakerNamesAt = now]]

\* applySpeakerNamesToJson; `now` is the clock at the write. A file that
\* holds null parses, and reading null.speakers raises a TypeError.
ApplySpeakerNamesToJson(file, replacements, now) ==
  IF file.kind \in {"absent", "garbage", "scalar"}
  THEN [threw |-> FALSE, changed |-> FALSE, file |-> file]
  ELSE IF file.kind = "falsy"
  THEN [threw |-> TRUE, changed |-> FALSE, file |-> file]
  ELSE
    LET payload == [file EXCEPT
                      !.speakers = RenamedSpeakers(@, replacements),
                      !.segments = RenamedSegments(@, replacements),
                      !.speakerStats = RenamedStats(@, replacements)]
        changed == \/ payload.speakers # file.speakers
                   \/ payload.segments # file.segments
                   \/ MarkedStats(file.speakerStats) # file.speakerStats
                   \/ StatsChanged(file.speakerStats, replacements)
    IN IF ~changed
       THEN [threw |-> FALSE, changed |-> FALSE, file |-> file]
       ELSE [threw |-> FALSE, changed |-> TRUE,
             file |-> [payload EXCEPT !.updatedSpeakerNamesAt = now]]

\* The Map applySpeakerNamesToExports builds from meeting.speakers.
RECURSIVE Replacements(_, _, _)
Replacements(roster, index, replacements) ==
  IF index > Len(roster) THEN replacements
  ELSE LET label == roster[index].label
           displayName == Trim(roster[index].displayName)
       IN Replacements(roster, index + 1,
            IF Falsy(label) \/ Falsy(displayName) \/ displayName = label
            THEN replacements
            ELSE MapSet(replacements, label, displayName))

\* The names of the files a sync rewrote, in the order it visits them.
UpdatedFiles(txt, srt, csv, json) ==
  (IF txt THEN <<"transcript.txt">> ELSE <<>>)
  \o (IF srt THEN <<"segments.srt">> ELSE <<>>)
  \o (IF csv THEN <<"segments.csv">> ELSE <<>>)
  \o (IF json THEN <<"diarization.json">> ELSE <<>>)

\* applySpeakerNamesToExports over the meeting's roster and its four files:
\* the four rewriters are called in turn with nothing catching what one of
\* them raises, so the first to raise ends the sync.
ApplySpeakerNamesToExports(roster, files, json, now) ==
  LET replacements == Replacements(roster, 1, <<>>)
      txt == ApplySpeakerNamesToTextFile(files.txt, replacements)
      srt == IF txt.threw THEN Rewritten(TRUE, FALSE, files.srt)
             ELSE ApplySpeakerNamesToTextFile(files.srt, replacements)
      csv == IF srt.threw THEN Rewritten(TRUE, FALSE, files.csv)
             ELSE ApplySpeakerNamesToCsv(files.csv, replacements)
      structured == IF csv.threw THEN Rewritten(TRUE, FALSE, json)
                    ELSE ApplySpeakerNamesToJson(json, replacements, now)
  IN IF roster = <<>> \/ replacements = <<>>
     THEN [threw |-> FALSE, files |-> <<>>, attempted |-> <<>>,
           exports |-> files, json |-> json]
     ELSE [threw |-> structured.threw,
           files |-> UpdatedFiles(txt.changed, srt.changed, csv.changed,
                                  structured.changed),
           attempted |-> UpdatedFiles(TRUE, ~txt.threw, ~srt.threw, ~csv.threw),
           exports |-> [txt |-> txt.file, srt |-> srt.file, csv |-> csv.file],
           json |-> structured.file]

\* -------------------------------------------------------------- SpecExport
\* One processed meeting with its four exports on disk: speakers are renamed
\* and the names are applied to the exports, in any order, while time passes.

\* Ticks of the clock that are told apart.
MaxClock == 1

\* The exports of a job that heard two speakers; the second line quotes the
\* first speaker in mid-sentence, and the second CSV row pads its first field.
EngineTranscript(newline, trailing) ==
  <<"Speaker 1", Colon, Space, "hello", newline,
    "Speaker 2", Colon, Space, "quoting", Space, "Speaker 1", Colon, Space, "hi">>
  \o (IF trailing THEN <<newline>> ELSE <<>>)

EngineSubtitles(newline, trailing) ==
  <<"1", newline, "00:00:00,000 --> 00:00:01,200", newline,
    "Speaker 1", Colon, Space, "hello", newline, newline,
    "2", newline, "00:00:01,200 --> 00:00:02,400", newline,
    "Speaker 2", Colon, Space, "hi">>
  \o (IF trailing THEN <<newline>> ELSE <<>>)

EngineCsv(newline, trailing) ==
  <<"speaker", Comma, "start", Comma, "end", Comma, "text", newline,
    "Speaker 1", Comma, "0", Comma, "1200", Comma, "hello", newline,
    Space, "Speaker 2", Space, Comma, "1200", Comma, "2400", Comma, "hi">>
  \o (IF trailing THEN <<newline>> ELSE <<>>)

EngineResult ==
  FullObject(NULL,
             <<SpeakerEntry("Speaker 1", "Speaker 1"),
               SpeakerEntry("Speaker 2", "Speaker 2")>>,
             <<SegmentEntry(101, "Speaker 1", NoId),
               SegmentEntry(102, "Speaker 2", NoId)>>,
             <<StatsEntry("Speaker 1", 1), StatsEntry("Speaker 2", 2)>>)

EngineExports(newline, trailing) ==
  [txt |-> TextFile(EngineTranscript(newline, trailing)),
   srt |-> TextFile(EngineSubtitles(newline, trailing)),
   csv |-> TextFile(EngineCsv(newline, trailing))]

\* The line break of the exports, and whether the last line ends with one.
ExportLayouts == {<<LF, TRUE>>, <<CRLF, FALSE>>}

\* The display names a client sends.
RenameInputs == {"", " Alice ", "Alice", "Speaker 1", "Speaker 2"}

\* The state a successful job over EngineResult leaves behind.
InitExport ==
  LET persisted == PersistPayload(<<>>, <<>>, 1, EngineResult)
  IN /\ meetings = <<[status |-> "done", startedAt |-> TRUE,
                      endedAt |-> TRUE, audioFilePath |-> UploadPath(1)]>>
     /\ speakers = persisted.speakers
     /\ segments = persisted.segments
     /\ audioFiles = {UploadPath(1)}
     /\ outDirs = {1}
     /\ jsonFile \in [Meetings -> {EngineResult, GarbageFile, JsonFalsy}]
     /\ microtasks = <<>>
     /\ running = [m \in Meetings |-> 0]
     /\ \E layout \in ExportLayouts :
          exports = [m \in Meetings |-> EngineExports(layout[1], layout[2])]
     /\ clock = 0
     /\ shell = NoShell
     /\ client = NoClient
     /\ last = NoLast

\* A variant whose UPDATE selects by meeting alone.
RenameSpeakerRowsOfMeeting(table, meetingId, speakerId, displayName) ==
  [i \in DOMAIN table |->
     IF table[i].meetingId = meetingId
     THEN [table[i] EXCEPT !.displayName = displayName] ELSE table[i]]

\* storage.renameSpeaker: UPDATE speakers SET display_name = ? WHERE id = ?
\* AND meeting_id = ?
RenameSpeakerRows(table, meetingId, speakerId, displayName) ==
  [i \in DOMAIN table |->
     IF table[i].id = speakerId /\ table[i].meetingId = meetingId
     THEN [table[i] EXCEPT !.displayName = displayName] ELSE table[i]]

\* PATCH /api/meetings/:meetingId/speakers/:speakerId, the handler registered
\* first: it answers every request, so the second one never runs.
RenameSpeaker(meetingId, speakerId, displayName) ==
  /\ Idle
  /\ meetingId \in Created
  /\ IF Falsy(displayName) \/ Falsy(Trim(displayName))
     THEN /\ last' = [NoLast EXCEPT !.op = "rename", !.meetingId = meetingId,
                                    !.outcome = "400"]
          /\ UNCHANGED speakers
     ELSE /\ speakers' = RenameSpeakerRows(speakers, meetingId, speakerId,
                                           Trim(displayName))
          /\ last' = [NoLast EXCEPT !.op = "rename", !.meetingId = meetingId,
                                    !.outcome = "200"]
  /\ UNCHANGED <<shell, client, meetings, segments, audioFiles, outDirs, jsonFile, microtasks,
                 running, exports, clock>>

\* A variant of the sync that also stores the applied names as the labels of
\* the speaker rows.
ApplySpeakerNamesRelabelling(meetingId) ==
  /\ Idle
  /\ meetingId \in Created
  /\ LET result == ApplySpeakerNamesToExports(SpeakersOf(speakers, meetingId),
                                              exports[meetingId],
                                              jsonFile[meetingId], clock)
     IN /\ exports' = [exports EXCEPT ![meetingId] = result.exports]
        /\ jsonFile' = [jsonFile EXCEPT ![meetingId] = result.json]
        /\ last' = [NoLast EXCEPT
                      !.op = "apply", !.meetingId = meetingId,
                      !.files = IF result.threw THEN <<>> ELSE result.files,
                      !.attempted = result.attempted,
                      !.updated = result.files,
                      !.outcome = IF result.threw THEN "500" ELSE "200"]
  /\ speakers' = [i \in DOMAIN speakers |->
                    IF speakers[i].meetingId = meetingId
                    THEN [speakers[i] EXCEPT !.label = Trim(speakers[i].displayName)]
                    ELSE speakers[i]]
  /\ UNCHANGED <<shell, client, meetings, segments, audioFiles, outDirs, microtasks,
                 running, clock>>

\* POST /api/meetings/:meetingId/speakers/apply. A TypeError raised by the
\* JSON rewriter reaches the client as a 500, after the three text files
\* were rewritten.
ApplySpeakerNames(meetingId) ==
  /\ Idle
  /\ meetingId \in Created
  /\ LET result == ApplySpeakerNamesToExports(SpeakersOf(speakers, meetingId),
                                              exports[meetingId],
                                              jsonFile[meetingId], clock)
     IN /\ exports' = [exports EXCEPT ![meetingId] = result.exports]
        /\ jsonFile' = [jsonFile EXCEPT ![meetingId] = result.json]
        /\ last' = [NoLast EXCEPT
                      !.op = "apply", !.meetingId = meetingId,
                      !.files = IF result.threw THEN <<>> ELSE result.files,
                      !.attempted = result.attempted,
                      !.updated = result.files,
                      !.outcome = IF result.threw THEN "500" ELSE "200"]
  /\ UNCHANGED <<shell, client, meetings, speakers, segments, audioFiles, outDirs, microtasks,
                 running, clock>>

\* Time passes between two requests.
Tick ==
  /\ clock < MaxClock
  /\ clock' = clock + 1
  /\ UNCHANGED <<shell, client, meetings, speakers, segments, audioFiles, outDirs, jsonFile,
                 microtasks, running, exports, last>>

NextExport ==
  \/ \E m \in Meetings, id \in 1..3, name \in RenameInputs :
       RenameSpeaker(m, id, name)
  \/ \E m \in Meetings : ApplySpeakerNames(m)
  \/ Tick

SpecExport == InitExport /\ [][NextExport]_vars

\* C9: a sync that follows a sync, with no rename between the two, reports no
\* file changed and leaves the four exports as the first sync left them.
C9_SecondSyncChangesNothing ==
  [][(/\ last.op = "apply" /\ last.outcome = "200"
      /\ last'.op = "apply" /\ last'.outcome = "200"
      /\ clock' = clock)
       => /\ last'.files = <<>>
          /\ exports' = exports
          /\ jsonFile' = jsonFile]_vars

\* A speaker cue: the label at the start of a line, before optional
\* whitespace and a colon.
IsCue(content, index, label) ==
  /\ content[index] = label
  /\ LineStart(content, index)
  /\ ColonAhead(content, index)

\* The current display name of the speaker whose stable label is `label`.
DisplayNameOf(meetingId, label) ==
  LET roster == SpeakersOf(speakers, meetingId)
  IN roster[CHOOSE i \in DOMAIN roster : roster[i].label = label].displayName

RosterLabels(meetingId) ==
  {SpeakersOf(speakers, meetingId)[i].label :
     i \in DOMAIN SpeakersOf(speakers, meetingId)}

\* The cues of the text as the job wrote it show the current names.
TextShowsNames(meetingId, file, written) ==
  file.kind = "text" =>
    \A index \in DOMAIN written \cap DOMAIN file.content :
      (\E label \in RosterLabels(meetingId) : IsCue(written, index, label))
        => file.content[index] = DisplayNameOf(meetingId, written[index])

\* The first field of a row below the header.
IsSpeakerField(content, index) ==
  /\ content[index] \notin Whitespace \cup {Comma}
  /\ \E break \in 1..(index - 1) :
       /\ content[break] \in Newlines
       /\ \A between \in (break + 1)..(index - 1) : content[between] = Space
  /\ \E comma \in (index + 1)..Len(content) :
       /\ content[comma] = Comma
       /\ \A between \in (index + 1)..(comma - 1) : content[between] = Space

CsvShowsNames(meetingId, file, written) ==
  file.kind = "text" =>
    \A index \in DOMAIN written \cap DOMAIN file.content :
      (IsSpeakerField(written, index) /\ written[index] \in RosterLabels(meetingId))
        => file.content[index] = DisplayNameOf(meetingId, written[index])

JsonShowsNames(meetingId, file, written) ==
  file.kind = "object" =>
    /\ \A i \in DOMAIN written.speakers :
         file.speakers[i].displayName =
           DisplayNameOf(meetingId, written.speakers[i].label)
    /\ \A i \in DOMAIN written.segments :
         file.segments[i].speakerLabel =
           DisplayNameOf(meetingId, written.segments[i].speakerLabel)

\* C10: once a sync has completed, every cue and speaker field of the four
\* exports that the job wrote for a stable label shows the current display
\* name of the speaker with that label.
C10_ExportsShowCurrentNames ==
  (last.op = "apply" /\ last.outcome = "200") =>
    LET m == last.meetingId
    IN /\ TextShowsNames(m, exports[m].txt, EngineTranscript(LF, TRUE))
       /\ TextShowsNames(m, exports[m].srt, EngineSubtitles(LF, TRUE))
       /\ CsvShowsNames(m, exports[m].csv, EngineCsv(LF, TRUE))
       /\ JsonShowsNames(m, jsonFile[m], EngineResult)

\* ------------------------------------------------------------- SpecRewrite
\* One sync after another over exports and rosters drawn from small sets:
\* labels that hold pattern syntax, text with a label in mid-line, CSV rows
\* of every shape, mixed line breaks, files that cannot be read or written.

\* A transcript whose lines open with a plain label, a label in parentheses,
\* a label without a colon, and a label before a blank and a colon.
RewriteTranscript(first, rest, trailing) ==
  <<"Speaker 1", Colon, Space, "hello", first,
    "Speaker (1)", Colon, Space, "hi", rest,
    "S1", Space, "met", Space, "S2", Colon, Space, "there", rest,
    "Speaker 2", Space, Colon, Space, "quoting", Space, "Speaker 1", Colon,
    Space, "bye">>
  \o (IF trailing THEN <<rest>> ELSE <<>>)

RewriteSubtitles(first, rest, trailing) ==
  <<"1", first, "00:00:00,000 --> 00:00:01,200", rest,
    "Speaker 1", Colon, Space, "hello", rest, rest,
    "2", rest, "00:00:01,200 --> 00:00:02,400", rest,
    "Speaker (1)", Colon, Space, "S2", Colon, Space, "hi">>
  \o (IF trailing THEN <<rest>> ELSE <<>>)

\* CSV rows: a header (or, without one, a data row in its place), the row of
\* the spec's example, a padded field, a blank row, a row without a comma
\* and a row of nobody on the roster.
RewriteCsv(header, first, rest, trailing) ==
  (IF header THEN <<"speaker", Comma, "start", Comma, "end", Comma, "text">>
   ELSE <<"Speaker 1", Comma, "0", Comma, "600", Comma, "first">>)
  \o <<first,
       "Speaker 1", Comma, Space, "0", Comma, "1200", Comma, "hello", rest,
       Space, "Speaker 2", Space, Comma, "1200", Comma, "2400", Comma, "hi", rest,
       Space, rest,
       "Speaker 1", rest,
       "Carol", Comma, "2400", Comma, "3000", Comma, "Speaker 1", Comma, "x">>
  \o (IF trailing THEN <<rest>> ELSE <<>>)

\* The first line break, the other line breaks, a line break at the end.
RewriteLayouts ==
  {<<LF, LF, TRUE>>, <<CRLF, CRLF, FALSE>>, <<CRLF, LF, TRUE>>, <<LF, CRLF, FALSE>>}

\* The file as the disk holds it: readable and writable, or not.
FileKinds == {"text", "absent", "unreadable", "readonly"}

FileOfKind(kind, content) ==
  CASE kind = "text" -> TextFile(content)
    [] kind = "readonly" -> ReadOnlyFile(content)
    [] kind = "unreadable" -> UnreadableFile
    [] OTHER -> AbsentFile

\* The labels of a two-speaker roster, and the name each speaker may carry
\* besides its label.
RewriteLabels ==
  {<<"Speaker 1", "Speaker 2">>, <<"Speaker (1)", "Speaker 1">>,
   <<"S1|S2", "Speaker 1">>, <<"Speaker [1", "Speaker 2">>}

RewriteRoster(labels, firstName, secondName) ==
  <<[id |-> 1, meetingId |-> 1, label |-> labels[1], displayName |-> firstName],
    [id |-> 2, meetingId |-> 1, label |-> labels[2], displayName |-> secondName]>>

RewriteResult(labels) ==
  FullObject(NULL,
             <<SpeakerEntry(labels[1], labels[1]), SpeakerEntry(labels[2], labels[2])>>,
             <<SegmentEntry(101, labels[1], NoId), SegmentEntry(102, labels[2], NoId)>>,
             <<StatsEntry(labels[1], 1), StatsEntry(labels[2], 2)>>)

InitRewrite ==
  /\ meetings = <<[status |-> "done", startedAt |-> TRUE,
                   endedAt |-> TRUE, audioFilePath |-> UploadPath(1)]>>
  /\ \E labels \in RewriteLabels :
       /\ \E firstName \in {labels[1], "Alice"}, secondName \in {labels[2], "Bob"} :
            speakers = RewriteRoster(labels, firstName, secondName)
       /\ jsonFile \in [Meetings -> {RewriteResult(labels), GarbageFile, JsonFalsy}]
  /\ segments = <<>>
  /\ audioFiles = {UploadPath(1)}
  /\ outDirs = {1}
  /\ microtasks = <<>>
  /\ running = [m \in Meetings |-> 0]
  /\ \E layout \in RewriteLayouts, header \in BOOLEAN,
        txtKind \in FileKinds, csvKind \in FileKinds \ {"absent"} :
       exports = [m \in Meetings |->
         [txt |-> FileOfKind(txtKind,
                    RewriteTranscript(layout[1], layout[2], layout[3])),
          srt |-> TextFile(RewriteSubtitles(layout[1], layout[2], layout[3])),
          csv |-> FileOfKind(csvKind,
                    RewriteCsv(header, layout[1], layout[2], layout[3]))]]
  /\ clock = 0
  /\ shell = NoShell
  /\ client = NoClient
  /\ last = NoLast

NextRewrite == \E m \in Meetings : ApplySpeakerNames(m)

SpecRewrite == InitRewrite /\ [][NextRewrite]_vars

\* The labels export-sync maps, and the name each is mapped to.
MappedLabels(meetingId) ==
  {label \in RosterLabels(meetingId) :
     /\ ~Falsy(Trim(DisplayNameOf(meetingId, label)))
     /\ Trim(DisplayNameOf(meetingId, label)) # label}

MappedName(meetingId, label) == Trim(DisplayNameOf(meetingId, label))

\* Nothing on disk stands in the way of a sync of the meeting.
FilesInOrder(meetingId) ==
  /\ exports[meetingId].txt.kind \in {"text", "absent"}
  /\ exports[meetingId].srt.kind \in {"text", "absent"}
  /\ exports[meetingId].csv.kind \in {"text", "absent"}
  /\ jsonFile[meetingId].kind # "falsy"

\* The sync rewrote the text literally: what it changed was a mapped label,
\* and every cue of a mapped label now shows that label's name.
LiteralRewrite(meetingId, before, after) ==
  before.kind = "text" =>
    /\ after.kind = "text"
    /\ Len(after.content) = Len(before.content)
    /\ \A index \in DOMAIN before.content :
         /\ after.content[index] # before.content[index]
              => before.content[index] \in MappedLabels(meetingId)
         /\ \A label \in MappedLabels(meetingId) :
              IsCue(before.content, index, label)
                => after.content[index] = MappedName(meetingId, label)

\* C11: the text and subtitle rewriters take a label literally, whatever
\* characters it holds: a sync over files in order never fails, changes no
\* text other than a mapped label, and rewrites every cue of a mapped label.
C11_LabelsMatchLiterally ==
  [][\A m \in Meetings :
       (last'.op = "apply" /\ last'.meetingId = m /\ FilesInOrder(m)) =>
         /\ last'.outcome = "200"
         /\ LiteralRewrite(m, exports[m].txt, exports'[m].txt)
         /\ LiteralRewrite(m, exports[m].srt, exports'[m].srt)]_vars

\* The sync changed the text at speaker cues only: a token is changed only
\* where it opens a line and optional whitespace and a colon follow it, and
\* no line break, blank or colon is changed, added or removed.
OnlyCuesRewritten(before, after) ==
  before.kind = "text" =>
    /\ after.kind = "text"
    /\ Len(after.content) = Len(before.content)
    /\ \A index \in DOMAIN before.content :
         after.content[index] # before.content[index] =>
           /\ before.content[index] \notin Whitespace \cup {Colon}
           /\ LineStart(before.content, index)
           /\ ColonAhead(before.content, index)

\* C12: the text and subtitle rewriters replace a label only at the start of
\* the file or of a line and before optional whitespace and a colon; a label
\* in mid-line, every line break and all other text stay as they were.
C12_OnlyCuesAreRewritten ==
  [][\A m \in Meetings :
       /\ OnlyCuesRewritten(exports[m].txt, exports'[m].txt)
       /\ OnlyCuesRewritten(exports[m].srt, exports'[m].srt)]_vars

\* The sync called the rewriter of the meeting's CSV file on a file it could
\* read and write.
CsvRewritten(m) ==
  /\ last'.op = "apply" /\ last'.meetingId = m
  /\ \E i \in DOMAIN last'.attempted : last'.attempted[i] = "segments.csv"
  /\ exports[m].csv.kind = "text"

\* C13: the CSV rewriter never changes row 0; in any other row whose text
\* before the first comma is, once trimmed, a mapped label, it replaces that
\* label by the display name and keeps the blanks around it and all from the
\* first comma on; it keeps every other row as it was.
C13_CsvSpeakerFieldRewritten ==
  [][\A m \in Meetings :
       CsvRewritten(m) =>
         LET before == exports[m].csv.content
             after == exports'[m].csv.content
         IN /\ exports'[m].csv.kind = "text"
            /\ Len(after) = Len(before)
            /\ \A index \in DOMAIN before :
                 IF before[index] \in Newlines THEN after[index] \in Newlines
                 ELSE IF /\ IsSpeakerField(before, index)
                         /\ before[index] \in MappedLabels(m)
                 THEN after[index] = MappedName(m, before[index])
                 ELSE after[index] = before[index]]_vars

\* A sync gave the padded field of one row and the plain field of another
\* their names, and left alone the data row that stands in the header's place.
C13_Witness ==
  /\ last.op = "apply" /\ last.outcome = "200"
  /\ exports[1].csv.kind = "text"
  /\ LET content == exports[1].csv.content
     IN /\ content[1] = "Speaker 1"
        /\ \E index \in DOMAIN content :
             IsSpeakerField(content, index) /\ content[index] = "Alice"
        /\ \E index \in DOMAIN content :
             /\ content[index] = "Bob"
             /\ content[index - 1] = Space
             /\ content[index + 1] = Space

CountOf(content, token) ==
  Cardinality({i \in DOMAIN content : content[i] = token})

EndsWithNewline(content) ==
  content # <<>> /\ content[Len(content)] \in Newlines

AllNewlinesAre(content, newline) ==
  \A i \in DOMAIN content : content[i] \in Newlines => content[i] = newline

\* What a CSV rewrite keeps whatever line break it writes: a file none of
\* whose rows changes is not written and not reported, a file that is
\* written is reported, and a line break at the end stays or stays away.
CsvFrameKept(m) ==
  LET before == exports[m].csv.content
      after == exports'[m].csv.content
      reported == \E i \in DOMAIN last'.files : last'.files[i] = "segments.csv"
  IN /\ exports'[m].csv.kind = "text"
     /\ Len(after) = Len(before)
     /\ (\A i \in DOMAIN before : before[i] \notin Newlines => after[i] = before[i])
          => (after = before /\ ~reported)
     /\ (after # before /\ last'.outcome = "200") => reported
     /\ EndsWithNewline(after) <=> EndsWithNewline(before)

\* C14 as stated: a rewritten CSV file has on every row the line break that
\* most rows of the original had.
C14_DominantNewlineKept ==
  [][\A m \in Meetings :
       CsvRewritten(m) =>
         LET before == exports[m].csv.content
             after == exports'[m].csv.content
         IN /\ CsvFrameKept(m)
            /\ (after # before /\ CountOf(before, CRLF) > CountOf(before, LF))
                 => AllNewlinesAre(after, CRLF)
            /\ (after # before /\ CountOf(before, LF) > CountOf(before, CRLF))
                 => AllNewlinesAre(after, LF)]_vars

\* C14: a rewritten CSV file has CRLF on every row when the original held a
\* CRLF anywhere, and LF otherwise; a line break at the end of the file is
\* kept, none is added, and a file without a changed row is not written.
C14_AnyCrlfDecidesNewline ==
  [][\A m \in Meetings :
       CsvRewritten(m) =>
         LET before == exports[m].csv.content
             after == exports'[m].csv.content
         IN /\ CsvFrameKept(m)
            /\ after # before =>
                 AllNewlinesAre(after, IF CountOf(before, CRLF) > 0
                                       THEN CRLF ELSE LF)]_vars

\* A sync rewrote a CSV file of mixed line breaks: CRLF on every row, the
\* last one included.
C14_Witness ==
  /\ last.op = "apply"
  /\ \E i \in DOMAIN last.files : last.files[i] = "segments.csv"
  /\ exports[1].csv.kind = "text"
  /\ AllNewlinesAre(exports[1].csv.content, CRLF)
  /\ EndsWithNewline(exports[1].csv.content)

\* The sync called the rewriter of the meeting's JSON file on a result record.
JsonRewritten(m) ==
  /\ last'.op = "apply" /\ last'.meetingId = m /\ clock' = clock
  /\ \E i \in DOMAIN last'.attempted : last'.attempted[i] = "diarization.json"
  /\ jsonFile[m].kind = "object"

\* The name a record of original label `label` shows after a sync, given the
\* name it showed before: the mapped name, or the one it showed.
NameAfterSync(m, label, shown) ==
  IF label \in MappedLabels(m) THEN MappedName(m, label) ELSE shown

\* The original key of the statistics entry that counts `words` words.
StatsOrigin(written, words) ==
  written.speakerStats[CHOOSE i \in DOMAIN written.speakerStats :
                         written.speakerStats[i].words = words].key

\* A sync that rewrites the JSON export leaves in every speaker, segment and
\* statistics record the stable label the job wrote for it, and every record
\* shows the mapped name of that label, or the name it showed before when the
\* label is not mapped.
OriginalLabelCaptured ==
  \A m \in Meetings :
       JsonRewritten(m) =>
         LET before == jsonFile[m]
             after == jsonFile'[m]
         IN /\ after.kind = "object"
            /\ DOMAIN after.speakers = DOMAIN EngineResult.speakers
            /\ \A i \in DOMAIN after.speakers :
                 LET label == EngineResult.speakers[i].label
                 IN /\ after.speakers[i].originalLabel = label
                    /\ after.speakers[i].displayName =
                         NameAfterSync(m, label, before.speakers[i].displayName)
            /\ DOMAIN after.segments = DOMAIN EngineResult.segments
            /\ \A i \in DOMAIN after.segments :
                 LET label == EngineResult.segments[i].speakerLabel
                 IN /\ after.segments[i].originalSpeakerLabel = label
                    /\ after.segments[i].speakerLabel =
                         NameAfterSync(m, label, before.segments[i].speakerLabel)
            /\ \A i \in DOMAIN after.speakerStats :
                 LET entry == after.speakerStats[i]
                     label == StatsOrigin(EngineResult, entry.words)
                 IN /\ entry.originalLabel = label
                    /\ \E j \in DOMAIN before.speakerStats :
                         /\ before.speakerStats[j].words = entry.words
                         /\ entry.key =
                              NameAfterSync(m, label, before.speakerStats[j].key)

\* A captured original label is never changed by any step.
OriginalLabelKept ==
  \A m \in Meetings :
       (jsonFile[m].kind = "object" /\ jsonFile'[m].kind = "object") =>
         /\ \A i \in DOMAIN jsonFile[m].speakers :
              ~Falsy(jsonFile[m].speakers[i].originalLabel) =>
                jsonFile'[m].speakers[i].originalLabel =
                  jsonFile[m].speakers[i].originalLabel
         /\ \A i \in DOMAIN jsonFile[m].segments :
              ~Falsy(jsonFile[m].segments[i].originalSpeakerLabel) =>
                jsonFile'[m].segments[i].originalSpeakerLabel =
                  jsonFile[m].segments[i].originalSpeakerLabel
         /\ \A i \in DOMAIN jsonFile'[m].speakerStats :
              \A j \in DOMAIN jsonFile[m].speakerStats :
                (/\ jsonFile[m].speakerStats[j].words = jsonFile'[m].speakerStats[i].words
                 /\ ~Falsy(jsonFile[m].speakerStats[j].originalLabel)) =>
                  jsonFile'[m].speakerStats[i].originalLabel =
                    jsonFile[m].speakerStats[j].originalLabel

\* C15: the first sync that rewrites a speaker, segment or statistics record
\* of the JSON export captures the record's stable label, no later step
\* changes the captured label, and every sync resolves the record's name
\* through it: the record shows the name its original label is mapped to, and
\* keeps the name it showed when the label is not in the mapping.
C15_OriginalLabelResolvesNames ==
  [][OriginalLabelCaptured /\ OriginalLabelKept]_vars

\* A second sync after a second rename: the transcript still shows the first
\* name of Speaker 1 while the JSON export, through the captured label,
\* shows the second.
C15_Witness ==
  /\ last.op = "apply" /\ last.outcome = "200"
  /\ exports[1].txt.content[1] = "Alice"
  /\ jsonFile[1].kind = "object"
  /\ jsonFile[1].speakers[1].originalLabel = "Speaker 1"
  /\ jsonFile[1].speakers[1].displayName = "Speaker 2"
  /\ jsonFile[1].segments[1].originalSpeakerLabel = "Speaker 1"
  /\ jsonFile[1].segments[1].speakerLabel = "Speaker 2"

\* The display name the roster resolves a statistics entry to: the current
\* name of the speaker whose stable label the job keyed the entry with.
ResolvedName(m, entry) ==
  DisplayNameOf(m, StatsOrigin(EngineResult, entry.words))

\* The entry of the statistics mapping that counts `words` words is present.
HasStats(stats, words) == \E i \in DOMAIN stats : stats[i].words = words

StatsMoved(m, before, after) ==
  \A j \in DOMAIN before :
    ResolvedName(m, before[j]) # before[j].key =>
      \E i \in DOMAIN after : after[i].key = ResolvedName(m, before[j])

LaterEntryWins(m, before, after) ==
  \A j, k \in DOMAIN before :
    (j < k /\ ResolvedName(m, before[j]) = ResolvedName(m, before[k])) =>
      /\ ~HasStats(after, before[j].words)
      /\ \E i \in DOMAIN after :
           /\ after[i].key = ResolvedName(m, before[k])
           /\ after[i].words = before[k].words

NoStatsLost(m, before, after) ==
  (\A j, k \in DOMAIN before :
     j # k => ResolvedName(m, before[j]) # ResolvedName(m, before[k])) =>
    \A j \in DOMAIN before : HasStats(after, before[j].words)

\* C16: a sync that rewrites the JSON export moves every statistics entry
\* whose resolved display name differs from its key to the display-name key;
\* of two entries that resolve to the same name the later one occupies the
\* key and the earlier one is gone; and when the resolved names are pairwise
\* distinct every entry is still present.
C16_StatsFollowResolvedNames ==
  [][\A m \in Meetings :
       JsonRewritten(m) =>
         LET before == jsonFile[m].speakerStats
             after == jsonFile'[m].speakerStats
         IN /\ StatsMoved(m, before, after)
            /\ LaterEntryWins(m, before, after)
            /\ NoStatsLost(m, before, after)]_vars

\* C17: in a sync with a non-empty mapping a failure on one export file
\* never keeps the rewrite from being attempted on the other files of the
\* meeting, and the sync answers with its per-file results: every sync calls
\* the rewriter of each of the four files and completes.
C17_EveryFileAttempted ==
  [][\A m \in Meetings :
       (last'.op = "apply" /\ last'.meetingId = m /\ MappedLabels(m) # {}) =>
         /\ last'.attempted = UpdatedFiles(TRUE, TRUE, TRUE, TRUE)
         /\ last'.outcome = "200"]_vars

\* The file name is in the list.
Listed(name, files) == \E i \in DOMAIN files : files[i] = name

\* The labels the sync's mapping has an entry for.
MappingKeys(m) ==
  LET replacements == Replacements(SpeakersOf(speakers, m), 1, <<>>)
  IN {replacements[i].label : i \in DOMAIN replacements}

\* The JSON file differs in more than its update timestamp.
JsonContentChanged(before, after) ==
  \/ before.kind # "object"
  \/ after.kind # "object"
  \/ [after EXCEPT !.updatedSpeakerNamesAt = before.updatedSpeakerNamesAt] # before

\* C18: the sync maps exactly the speakers whose trimmed display name is not
\* empty and differs from their stable label; with an empty mapping it calls
\* no rewriter, reports no file and leaves every file as it was; and a
\* rewriter changes its file (the JSON timestamp included) only together with
\* some content of it, the file being in the list of updated files exactly
\* when it was written. A sync that completes answers with that list.
C18_WritesOnlyChanges ==
  [][\A m \in Meetings :
       (last'.op = "apply" /\ last'.meetingId = m /\ clock' = clock) =>
         /\ MappingKeys(m) = MappedLabels(m)
         /\ MappedLabels(m) = {} =>
              /\ last'.attempted = <<>> /\ last'.updated = <<>>
              /\ last'.outcome = "200"
              /\ exports' = exports /\ jsonFile' = jsonFile
         /\ Listed("transcript.txt", last'.updated) <=> exports'[m].txt # exports[m].txt
         /\ Listed("segments.srt", last'.updated) <=> exports'[m].srt # exports[m].srt
         /\ Listed("segments.csv", last'.updated) <=> exports'[m].csv # exports[m].csv
         /\ Listed("diarization.json", last'.updated) <=> jsonFile'[m] # jsonFile[m]
         /\ jsonFile'[m] # jsonFile[m] =>
              /\ JsonContentChanged(jsonFile[m], jsonFile'[m])
              /\ jsonFile'[m].updatedSpeakerNamesAt = clock
         /\ last'.outcome = "200" => last'.files = last'.updated]_vars

\* A second sync, later than the first, found nothing to change: it tried
\* every file, reported none, and the JSON export keeps its first timestamp.
C18_Witness ==
  /\ last.op = "apply" /\ last.outcome = "200"
  /\ MappedLabels(1) # {}
  /\ last.attempted = UpdatedFiles(TRUE, TRUE, TRUE, TRUE)
  /\ last.files = <<>>
  /\ jsonFile[1].kind = "object"
  /\ jsonFile[1].updatedSpeakerNamesAt = 0
  /\ clock = 1
  /\ shell = NoShell
  /\ client = NoClient

\* The speakers and the segments an analysis result reports.
ResultSpeakers(payload) ==
  IF payload.kind = "object" THEN payload.speakers ELSE <<>>

ResultSegments(payload) ==
  IF payload.kind = "object" THEN payload.segments ELSE <<>>

\* The roster is the result's speakers, one row each in reported order, named
\* by the engine or else by the label (the reported one, or else the
\* positional default).
RosterIsResult(roster, reported) ==
  /\ Len(roster) = Len(reported)
  /\ \A i \in DOMAIN reported :
       LET label == IF reported[i].label = NULL THEN SpeakerLabel(i)
                    ELSE reported[i].label
       IN /\ reported[i].valid
          /\ roster[i].label = label
          /\ roster[i].displayName = IF reported[i].displayName = NULL
                                     THEN label
                                     ELSE reported[i].displayName

\* The stored segments are the result's segments.
SegmentsAreResult(rows, reported) ==
  /\ Len(rows) = Len(reported)
  /\ \A i \in DOMAIN reported :
       /\ rows[i].transcript = reported[i].transcript
       /\ rows[i].startMs = reported[i].startMs
       /\ rows[i].endMs = reported[i].endMs

\* C19: when a job ends in done, the meeting's speakers are exactly the
\* speakers of the job's result, in reported order and with the engine's
\* names or else the labels, and its segments are exactly the segments of
\* that result: no row from before the job remains.
C19_DoneReplacesRows ==
  [][\A m \in Meetings :
       (/\ running'[m] < running[m]
        /\ last'.op = "close" /\ last'.meetingId = m
        /\ last'.outcome = "done") =>
         /\ RosterIsResult(SpeakersOf(speakers', m), ResultSpeakers(last'.payload))
         /\ SegmentsAreResult(SelectSeq(segments', LAMBDA row : row.meetingId = m),
                              ResultSegments(last'.payload))]_vars

\* -------------------------------------------------------------- SpecRoster
\* The roster of one meeting under the routes that shape it: creation, reset
\* from a count or from an explicit list, add-speaker and rename.

\* Speakers a roster grows to by add-speaker.
MaxSpeakers == 3

\* speakerCount / count as the routes receive it; 0 stands for an absent or
\* non-numeric value, -1 for a number that is not positive.
RosterCounts == {-1, 0, 1, 2}

\* Explicit speakers arrays of POST /speakers/reset.
RosterLists ==
  { <<>>,
    <<SpeakerEntry("Speaker 2", NULL)>>,
    <<SpeakerEntry(NULL, "Ann"), SpeakerEntry("Speaker 3", NULL)>>,
    <<SpeakerEntry(NULL, "Ann"), SpeakerEntry(NULL, "Ann")>>,
    <<NullEntry>> }

\* storage.addSpeaker: the label counts the meeting's speakers.
AddSpeakerRow(table, meetingId, displayName) ==
  Append(table,
         [id |-> FreshId(Ids(table)), meetingId |-> meetingId,
          label |-> SpeakerLabel(Len(SpeakersOf(table, meetingId)) + 1),
          displayName |-> displayName])

\* POST /api/meetings/:meetingId/speakers
AddSpeaker(meetingId, displayName) ==
  /\ Idle
  /\ meetingId \in Created
  /\ Len(SpeakersOf(speakers, meetingId)) < MaxSpeakers
  /\ IF Falsy(displayName) \/ Falsy(Trim(displayName))
     THEN /\ last' = [NoLast EXCEPT !.op = "add", !.meetingId = meetingId,
                                    !.outcome = "400"]
          /\ UNCHANGED speakers
     ELSE /\ speakers' = AddSpeakerRow(speakers, meetingId, Trim(displayName))
          /\ last' = [NoLast EXCEPT !.op = "add", !.meetingId = meetingId,
                                    !.outcome = "200"]
  /\ UNCHANGED <<exportVars, meetings, segments, audioFiles, outDirs, jsonFile,
                 microtasks, running>>

\* POST /api/meetings/:meetingId/speakers/reset -> storage.resetSpeakers;
\* `items` is the speakers array of the body, or the entries its count stands
\* for.
ResetSpeakers(meetingId, items) ==
  /\ Idle
  /\ meetingId \in Created
  /\ LET reset == ResetSpeakersInternal(speakers, segments, meetingId, items)
     IN /\ speakers' = reset.speakers
        /\ segments' = reset.segments
        /\ last' = [NoLast EXCEPT !.op = "reset", !.meetingId = meetingId,
                                  !.items = items,
                                  !.outcome = IF reset.threw THEN "500" ELSE "200"]
  /\ UNCHANGED <<exportVars, meetings, audioFiles, outDirs, jsonFile, microtasks,
                 running>>

NextRoster ==
  \/ \E count \in RosterCounts : CreateMeeting(count)
  \/ \E m \in Meetings, count \in RosterCounts : ResetSpeakers(m, CountItems(count))
  \/ \E m \in Meetings, list \in RosterLists : ResetSpeakers(m, list)
  \/ \E m \in Meetings, name \in RenameInputs : AddSpeaker(m, name)
  \/ \E m \in Meetings, id \in 1..MaxSpeakers, name \in RenameInputs :
       RenameSpeaker(m, id, name)

SpecRoster == Init /\ [][NextRoster]_vars

\* C20: in every reachable state no two speakers of a meeting have the same
\* stable label.
C20_LabelsUniquePerMeeting ==
  \A m \in Created :
    LET roster == SpeakersOf(speakers, m)
    IN \A i, j \in DOMAIN roster : i # j => roster[i].label # roster[j].label

\* C21: a rename changes nothing but the display name of one speaker: every
\* speaker keeps its identity, meeting and stable label, at most one row gets
\* a new display name (none when the request is refused), and the segments
\* with their speaker references, the meetings with their status, the jobs
\* and every export file stay as they were.
C21_RenameChangesOneName ==
  [][(last'.op = "rename" /\ clock' = clock) =>
       /\ DOMAIN speakers' = DOMAIN speakers
       /\ \A i \in DOMAIN speakers :
            /\ speakers'[i].id = speakers[i].id
            /\ speakers'[i].meetingId = speakers[i].meetingId
            /\ speakers'[i].label = speakers[i].label
       /\ \A i, j \in DOMAIN speakers :
            (/\ speakers'[i].displayName # speakers[i].displayName
             /\ speakers'[j].displayName # speakers[j].displayName) => i = j
       /\ last'.outcome # "200" => speakers' = speakers
       /\ segments' = segments
       /\ meetings' = meetings
       /\ exports' = exports /\ jsonFile' = jsonFile
       /\ running' = running /\ microtasks' = microtasks]_vars

\* Speaker 1 was just renamed: its segment still points at it and the
\* transcript still shows its label.
C21_Witness ==
  /\ last.op = "rename" /\ last.outcome = "200"
  /\ speakers[1].label = "Speaker 1" /\ speakers[1].displayName = "Alice"
  /\ speakers[2].displayName = "Speaker 2"
  /\ segments[1].speakerId = speakers[1].id
  /\ exports[1].txt.kind = "text" /\ exports[1].txt.content[1] = "Speaker 1"

\* C22: a sync, whether it completes or fails, changes export files only: the
\* meetings with their status, the speaker rows, the segment rows and the
\* audio files are as before, and no job is queued or started.
C22_SyncTouchesExportsOnly ==
  [][(last'.op = "apply" /\ clock' = clock) =>
       /\ meetings' = meetings
       /\ speakers' = speakers
       /\ segments' = segments
       /\ audioFiles' = audioFiles /\ outDirs' = outDirs
       /\ running' = running /\ microtasks' = microtasks]_vars

\* A sync has just rewritten the four exports of a finished meeting whose
\* first speaker is renamed.
C22_Witness ==
  /\ last.op = "apply" /\ last.outcome = "200"
  /\ last.files = UpdatedFiles(TRUE, TRUE, TRUE, TRUE)
  /\ meetings[1].status = "done"
  /\ speakers[1].label = "Speaker 1" /\ speakers[1].displayName = "Alice"
  /\ segments[1].speakerId = speakers[1].id
  /\ running[1] = 0

\* Every segment points at no speaker or at a speaker row that exists.
SpeakerRefsValid ==
  \A i \in DOMAIN segments :
    segments[i].speakerId = NoId \/ segments[i].speakerId \in Ids(speakers)

\* A job's result replaced the roster of the meeting and stored no segments.
RosterResetAlone(m) ==
  /\ running'[m] < running[m]
  /\ last'.op = "close" /\ last'.meetingId = m /\ last'.error = NULL
  /\ HasItems(last'.payload, "speakers")
  /\ ~HasItems(last'.payload, "segments")

\* The reset kept every segment and set to null the references to the
\* speakers it deleted.
ResetNullifiesRefs ==
  \A m \in Meetings :
    RosterResetAlone(m) =>
      /\ DOMAIN segments' = DOMAIN segments
      /\ \A i \in DOMAIN segments :
           segments'[i] =
             IF segments[i].speakerId \in Ids(SpeakersOf(speakers, m))
             THEN [segments[i] EXCEPT !.speakerId = NoId]
             ELSE segments[i]

\* C23: in every reachable state a segment's speaker reference is null or
\* the identity of an existing speaker; and a roster reset deletes no segment
\* and sets to null the reference of every segment that pointed at one of
\* the speakers it deleted.
C23_SpeakerRefsNullOrExisting ==
  []SpeakerRefsValid /\ [][ResetNullifiesRefs]_vars

\* A later result replaced the roster without segments: the two segments of
\* the earlier job are still stored and point at no speaker.
C23_Witness ==
  /\ last.op = "close" /\ last.error = NULL
  /\ HasItems(last.payload, "speakers") /\ ~HasItems(last.payload, "segments")
  /\ Len(segments) = 2
  /\ \A i \in DOMAIN segments : segments[i].speakerId = NoId
  /\ speakers # <<>>

\* The roster holds one row per entry of the list, in order; an entry's label
\* is the one given or else "Speaker <position>", its display name the one
\* given or else its label.
RosterOfList(roster, items) ==
  /\ Len(roster) = Len(items)
  /\ \A i \in DOMAIN items :
       LET label == IF items[i].label = NULL THEN SpeakerLabel(i)
                    ELSE items[i].label
       IN /\ roster[i].label = label
          /\ roster[i].displayName = IF items[i].displayName = NULL THEN label
                                     ELSE items[i].displayName

\* C24: a roster reset with an empty list leaves exactly one speaker,
\* labelled "Speaker 1"; a reset with a list of N >= 1 speaker entries leaves
\* exactly N speakers, also when entries share a display name; an entry
\* without a label is labelled "Speaker <position>" and an entry without a
\* display name is named by its label. (A list holding null is refused and
\* the roster stays as it was.)
C24_ResetStoresTheList ==
  [][\A m \in Meetings :
       (last'.op = "reset" /\ last'.meetingId = m /\ clock' = clock) =>
         LET items == last'.items
             roster == SpeakersOf(speakers', m)
         IN IF \A i \in DOMAIN items : items[i].valid
            THEN /\ last'.outcome = "200"
                 /\ items = <<>> =>
                      /\ Len(roster) = 1
                      /\ roster[1].label = "Speaker 1"
                      /\ roster[1].displayName = "Speaker 1"
                 /\ items # <<>> => RosterOfList(roster, items)
            ELSE /\ last'.outcome = "500"
                 /\ speakers' = speakers]_vars

\* A reset with two unlabelled entries of the same name stored two speakers.
C24_Witness ==
  /\ last.op = "reset" /\ last.outcome = "200"
  /\ last.items = <<SpeakerEntry(NULL, "Ann"), SpeakerEntry(NULL, "Ann")>>
  /\ Len(speakers) = 2
  /\ speakers[1].label = "Speaker 1" /\ speakers[1].displayName = "Ann"
  /\ speakers[2].label = "Speaker 2" /\ speakers[2].displayName = "Ann"

\* A meeting exists exactly when it has speakers: the meeting row and its
\* speaker rows are inserted in one transaction.
CreatedWithSpeakers ==
  \A m \in Meetings : m \in Created <=> SpeakersOf(speakers, m) # <<>>

\* The meeting was created without a positive speaker count: it is pending
\* and has the two default speakers.
DefaultRosterCreated ==
  \A m \in Meetings :
    (/\ m \notin Created
     /\ last'.op = "create" /\ last'.meetingId = m /\ last'.count <= 0) =>
      LET roster == SpeakersOf(speakers', m)
      IN /\ m \in DOMAIN meetings'
         /\ meetings'[m].status = "pending"
         /\ Len(roster) = 2
         /\ \A i \in 1..2 :
              /\ roster[i].label = SpeakerLabel(i)
              /\ roster[i].displayName = SpeakerLabel(i)

\* C25: creating a meeting with no speaker count, or with one that is not a
\* positive number, yields a pending meeting with exactly the speakers
\* "Speaker 1" and "Speaker 2" in this order, each named by its label; and
\* the meeting and its speakers come into being together.
C25_CreateGivesTwoSpeakers ==
  []CreatedWithSpeakers /\ [][DefaultRosterCreated]_vars

\* A meeting was just created with a negative speaker count.
C25_Witness ==
  /\ last.op = "create" /\ last.count < 0
  /\ 1 \in Created /\ meetings[1].status = "pending"
  /\ Len(speakers) = 2
  /\ speakers[2].label = "Speaker 2" /\ speakers[2].displayName = "Speaker 2"

\* ---------------------------------------------------------------- SpecArgs
\* runDiarization's argument sequence, for an environment and the options of
\* one call.

\* Keys an options object holds.
MaxOptions == 2

\* The booleans of JavaScript among the strings of this model.
JsTrue == "<true>"
JsFalse == "<false>"

\* if (value): undefined, "" and false do not pass.
Passes(value) == value \notin {NULL, "", JsFalse}

\* Number.isFinite(Number(value)) over the values of this model.
IsFiniteNumber(value) == value \in {"1", "3", "4", "8"}

\* The keys of envOptions, in the order of the object literal.
ConfigKeys ==
  <<"whisperModel", "batchSize", "language", "disableStem", "suppressNumerals",
    "logLevel", "minSpeakers", "maxSpeakers">>

NumericKeys == {"batchSize", "minSpeakers", "maxSpeakers"}
ToggleKeys == {"disableStem", "suppressNumerals"}

\* The flag each key is passed with.
FlagOf(key) ==
  CASE key = "whisperModel" -> "--whisper-model"
    [] key = "batchSize" -> "--batch-size"
    [] key = "language" -> "--language"
    [] key = "disableStem" -> "--no-stem"
    [] key = "suppressNumerals" -> "--suppress-numerals"
    [] key = "logLevel" -> "--log-level"
    [] key = "minSpeakers" -> "--min-speakers"
    [] key = "maxSpeakers" -> "--max-speakers"

\* process.env: the DIARIZATION_* variable of each key, NULL when unset.
Environments ==
  { [whisperModel |-> model, batchSize |-> batch, language |-> language,
     disableStem |-> stem, suppressNumerals |-> numerals, logLevel |-> level,
     minSpeakers |-> least, maxSpeakers |-> most] :
      model \in {NULL, "base"}, batch \in {NULL, "abc", "4"},
      language \in {NULL, "en"}, stem \in {NULL, "1", "true"},
      numerals \in {NULL, "1"}, level \in {NULL, "info"},
      least \in {NULL, "1"}, most \in {NULL, "3"} }

\* Properties a caller puts into `options`.
OptionEntries ==
  { [key |-> "whisperModel", value |-> "tiny"],
    [key |-> "whisperModel", value |-> NULL],
    [key |-> "batchSize", value |-> "8"],
    [key |-> "language", value |-> ""],
    [key |-> "disableStem", value |-> JsFalse],
    [key |-> "suppressNumerals", value |-> JsTrue],
    [key |-> "maxSpeakers", value |-> "abc"] }

\* Object literals of up to `size` properties, in the order they were written.
RECURSIVE OptionsUpTo(_)
OptionsUpTo(size) ==
  IF size = 0 THEN {<<>>}
  ELSE LET shorter == OptionsUpTo(size - 1)
       IN shorter \cup
          {Append(options, entry) :
             options \in {o \in shorter : Len(o) = size - 1},
             entry \in OptionEntries}

HasOwn(options, key) == \E i \in DOMAIN options : options[i].key = key

\* The value of the last property written with the key.
OwnValue(options, key) ==
  options[CHOOSE i \in DOMAIN options :
            /\ options[i].key = key
            /\ \A j \in DOMAIN options : options[j].key = key => j <= i].value

\* envOptions: the toggles compare their variable with "1".
EnvOptions(env) ==
  [key \in DOMAIN env |->
     IF key \in ToggleKeys
     THEN (IF env[key] = "1" THEN JsTrue ELSE JsFalse)
     ELSE env[key]]

\* A variant of the spread in which the environment wins.
MergedPreferringEnv(env, options) ==
  [key \in DOMAIN env |->
     IF Passes(EnvOptions(env)[key]) \/ ~HasOwn(options, key)
     THEN EnvOptions(env)[key]
     ELSE OwnValue(options, key)]

\* { ...envOptions, ...options }: a property of options replaces the
\* environment's, whatever its value.
Merged(env, options) ==
  [key \in DOMAIN env |->
     IF HasOwn(options, key) THEN OwnValue(options, key)
     ELSE EnvOptions(env)[key]]

\* What one key adds to args.
ArgsOfKey(key, value) ==
  IF key \in ToggleKeys
  THEN (IF Passes(value) THEN <<FlagOf(key)>> ELSE <<>>)
  ELSE IF key \in NumericKeys
  THEN (IF Passes(value) /\ IsFiniteNumber(value)
        THEN <<FlagOf(key), value>> ELSE <<>>)
  ELSE (IF Passes(value) THEN <<FlagOf(key), value>> ELSE <<>>)

\* The pushes of lines 54-77, in their order.
RECURSIVE ConfigArgs(_, _)
ConfigArgs(merged, index) ==
  IF index > Len(ConfigKeys) THEN <<>>
  ELSE ArgsOfKey(ConfigKeys[index], merged[ConfigKeys[index]])
       \o ConfigArgs(merged, index + 1)

InitArgs ==
  /\ meetings = <<>>
  /\ speakers = <<>>
  /\ segments = <<>>
  /\ audioFiles = {}
  /\ outDirs = {}
  /\ jsonFile = [m \in Meetings |-> AbsentFile]
  /\ microtasks = <<>>
  /\ running = [m \in Meetings |-> 0]
  /\ exports = [m \in Meetings |-> NoExports]
  /\ clock = 0
  /\ shell = NoShell
  /\ client = NoClient
  /\ \E env \in Environments, options \in OptionsUpTo(MaxOptions) :
       last = [NoLast EXCEPT !.op = "configured", !.env = env,
                             !.options = options]

\* runDiarization builds the arguments of the process.
BuildArgs ==
  /\ last.op = "configured"
  /\ last' = [last EXCEPT !.op = "spawned",
                          !.args = ConfigArgs(Merged(last.env, last.options), 1)]
  /\ UNCHANGED <<exportVars, meetings, speakers, segments, audioFiles, outDirs,
                 jsonFile, microtasks, running>>

NextArgs == BuildArgs

SpecArgs == InitArgs /\ [][NextArgs]_vars

HasFlag(args, flag) == \E i \in DOMAIN args : args[i] = flag

PositionOf(args, flag) == CHOOSE i \in DOMAIN args : args[i] = flag

\* The flag of the key is in args once, followed by the value.
PassedWith(args, key, value) ==
  /\ HasFlag(args, FlagOf(key))
  /\ \A i, j \in DOMAIN args :
       (args[i] = FlagOf(key) /\ args[j] = FlagOf(key)) => i = j
  /\ key \notin ToggleKeys =>
       /\ PositionOf(args, FlagOf(key)) < Len(args)
       /\ args[PositionOf(args, FlagOf(key)) + 1] = value

\* The flags stand in the order of the keys, whatever the order of options.
FlagsInFixedOrder(args) ==
  \A i, j \in DOMAIN ConfigKeys :
    (/\ i < j
     /\ HasFlag(args, FlagOf(ConfigKeys[i]))
     /\ HasFlag(args, FlagOf(ConfigKeys[j]))) =>
      PositionOf(args, FlagOf(ConfigKeys[i])) < PositionOf(args, FlagOf(ConfigKeys[j]))

\* The override of the call when it gives one, else the environment's default.
OverrideOrDefault(env, options, key) ==
  IF HasOwn(options, key) /\ OwnValue(options, key) # NULL
  THEN OwnValue(options, key)
  ELSE EnvOptions(env)[key]

\* C26: for every configuration key the process is passed the override of the
\* call when one is given and the environment's default otherwise; a key with
\* neither is left out; and the flags stand in a fixed order.
C26_OverrideElseDefault ==
  last.op = "spawned" =>
    /\ \A index \in DOMAIN ConfigKeys :
         LET key == ConfigKeys[index]
             value == OverrideOrDefault(last.env, last.options, key)
         IN IF key \in ToggleKeys
            THEN HasFlag(last.args, FlagOf(key)) <=> value = JsTrue
            ELSE IF value = NULL THEN ~HasFlag(last.args, FlagOf(key))
            ELSE PassedWith(last.args, key, value)
    /\ FlagsInFixedOrder(last.args)

\* C26, amended: the value chosen for a key is the property of the options
\* object when the object has the key, whatever its value, and the
\* environment's default otherwise (a toggle's default being on when its
\* variable is "1"); the key is passed with the chosen value when that value
\* is not empty, undefined or false and, for the three numeric keys, is a
\* finite number, and it is left out otherwise; the flags stand in a fixed
\* order.
C26_ChosenValuePassedWhenUsable ==
  last.op = "spawned" =>
    /\ \A index \in DOMAIN ConfigKeys :
         LET key == ConfigKeys[index]
             value == IF HasOwn(last.options, key)
                      THEN OwnValue(last.options, key)
                      ELSE EnvOptions(last.env)[key]
             usable == /\ Passes(value)
                       /\ key \in NumericKeys => IsFiniteNumber(value)
         IN IF usable THEN PassedWith(last.args, key, value)
            ELSE ~HasFlag(last.args, FlagOf(key))
    /\ FlagsInFixedOrder(last.args)

\* The call named the speaker limit before the model: the model of the call
\* replaces the environment's, and the limit, not being a number, is left
\* out although the environment has one.
C26_Witness ==
  /\ last.op = "spawned"
  /\ last.options = <<[key |-> "maxSpeakers", value |-> "abc"],
                      [key |-> "whisperModel", value |-> "tiny"]>>
  /\ last.env.whisperModel = "base" /\ last.env.maxSpeakers = "3"
  /\ last.env.batchSize = "4"
  /\ PassedWith(last.args, "whisperModel", "tiny")
  /\ PassedWith(last.args, "batchSize", "4")
  /\ ~HasFlag(last.args, "--max-speakers")

\* The job recorded in `record` got as far as replacing the roster.
WroteRoster(record) ==
  /\ record.error \in {NULL, "PersistenceError"}
  /\ HasItems(record.payload, "speakers")
  /\ \A i \in DOMAIN record.payload.speakers : record.payload.speakers[i].valid

\* The job that resolves writes its status over the meeting's, and its roster
\* over the meeting's when it has one to write.
ResolvingJobOverwrites ==
  \A m \in Meetings :
    (running'[m] < running[m] /\ last'.op = "close" /\ last'.meetingId = m) =>
      /\ meetings'[m].status = last'.outcome
      /\ IF WroteRoster(last')
         THEN RosterIsResult(SpeakersOf(speakers', m), last'.payload.speakers)
         ELSE speakers' = speakers

\* With no job left, the meeting shows what the job that resolved last wrote.
LastResolvedJobShows ==
  (last.op = "close" /\ running[last.meetingId] = 0 /\ Idle) =>
    /\ StatusOf(last.meetingId) = last.outcome
    /\ WroteRoster(last) =>
         RosterIsResult(SpeakersOf(speakers, last.meetingId),
                        last.payload.speakers)

\* C27: jobs of one meeting run side by side, and each job that resolves
\* writes its status and roster over what is there, so that once all have
\* resolved the meeting's status and roster are those of the job that
\* resolved last, whichever was started first.
C27_LastResolvedJobWins ==
  []LastResolvedJobShows /\ [][ResolvingJobOverwrites]_vars

\* Two jobs of the meeting overlapped: one had already ended in done when the
\* other resolved, and the roster is the single speaker the later one
\* reported.
C27_Witness ==
  /\ last.op = "close" /\ last.prior = "done" /\ last.outcome = "done"
  /\ running[1] = 0 /\ Idle
  /\ last.payload = ResultObject(NULL, <<SpeakerEntry("Speaker 1", NULL)>>, <<>>)
  /\ Len(speakers) = 1 /\ speakers[1].label = "Speaker 1"
  /\ Len(segments) = 2

\* The step is a request that starts a job on the meeting, accepted or not.
JobStartRequest(m) == last'.op \in JobStarts /\ last'.meetingId = m

\* An accepted reprocess marks the meeting processing and queues a job on the
\* audio path the meeting has stored.
ReprocessQueuesStoredAudio ==
  \A m \in Meetings :
    (/\ last'.op = "reprocess" /\ last'.meetingId = m /\ last'.error = NULL
     /\ microtasks' # microtasks) =>
      /\ meetings'[m].status = "processing"
      /\ Len(microtasks') = Len(microtasks) + 1
      /\ microtasks'[Len(microtasks')].meetingId = m
      /\ microtasks'[Len(microtasks')].audioPath = meetings[m].audioFilePath

\* C28: a failed meeting stays failed, and no process is launched for it,
\* until a request that starts a job (end, upload, reprocess) is made on it;
\* a reprocess queues a fresh job on the stored audio path.
C28_FailedUntilUserAction ==
  [][/\ \A m \in Created :
          (StatusOf(m) = "failed" /\ ~JobStartRequest(m)) =>
            /\ meetings'[m].status = "failed"
            /\ running'[m] <= running[m]
     /\ ReprocessQueuesStoredAudio]_vars

\* C28, amended: no process is ever launched for a failed meeting without a
\* request that starts a job on it, and the meeting stays failed until such a
\* request unless a job of the meeting that was started earlier is still
\* running: when that job resolves, its status replaces failed. With no job
\* of the meeting running, failed meetings stay failed. An accepted reprocess
\* queues a fresh job on the stored audio path.
C28_FailedUntilRequestOrEarlierJob ==
  [][/\ \A m \in Created :
          (StatusOf(m) = "failed" /\ ~JobStartRequest(m)) =>
            /\ running'[m] <= running[m]
            /\ \/ meetings'[m].status = "failed"
               \/ /\ running[m] > 0 /\ running'[m] < running[m]
                  /\ last'.op = "close"
                  /\ meetings'[m].status = last'.outcome
     /\ ReprocessQueuesStoredAudio]_vars

\* A failed meeting was just reprocessed: a job on its stored audio is queued.
C28_Witness ==
  /\ last.op = "reprocess" /\ last.prior = "failed" /\ last.error = NULL
  /\ running[1] = 0
  /\ Len(microtasks) = 1
  /\ microtasks[1].audioPath = meetings[1].audioFilePath
  /\ meetings[1].status = "processing"

\* ------------------------------------------------------------- job liveness

\* A queued microtask is run by the event loop once the current handler returns.
MicrotaskRuns == \E spawnOk \in BOOLEAN : HandleDiarizationStart(spawnOk)

\* A process of the meeting that was started exits: the step in which its
\* close (or error) event is handled. ProcessClose is the one action that
\* takes a process out of flight.
ProcessExit(m) ==
  /\ Idle
  /\ running[m] > 0
  /\ running' = [running EXCEPT ![m] = @ - 1]

\* The lifecycle under the assumption that queued microtasks run and that
\* every started process exits, however often requests arrive in between.
SpecLive ==
  /\ Init /\ [][Next]_vars
  /\ WF_vars(MicrotaskRuns)
  /\ \A m \in Meetings : SF_running(ProcessExit(m))

\* C29: every meeting that entered processing eventually has status done or
\* failed, provided queued jobs are run and every started process exits.
C29_ProcessingEndsDoneOrFailed ==
  \A m \in Meetings :
    (m \in Created /\ StatusOf(m) = "processing")
      ~> (m \in Created /\ StatusOf(m) \in {"done", "failed"})

\* ------------------------------------------------------------- segment attribution

\* A second meeting of the database and the identity of its one speaker row.
OtherMeeting == 2
OtherSpeaker == 8
\* The identity of the one segment stored for the second meeting; engines
\* may number their segments, the id field of a result being optional.
OtherSegment == 101

\* segments[] entries as the engine contract allows them: a speaker label and,
\* optionally, a speakerId of the engine's own choosing.
AttributedSegments ==
  { SegmentEntry(NoId, label, speakerId) :
      label \in {SpeakerLabel(1), SpeakerLabel(2), SpeakerLabel(9)},
      speakerId \in {NoId, ForeignSpeaker, OtherSpeaker} }

AttributedPayloads ==
  { ResultObject(NULL, roster, <<segment>>) :
      roster \in { <<SpeakerEntry("Speaker 1", NULL)>>,
                   <<SpeakerEntry("Speaker 1", NULL), SpeakerEntry("Speaker 2", "Ann")>> },
      segment \in AttributedSegments }
  \cup { ResultObject(NULL,
                      <<SpeakerEntry("Speaker 1", NULL), SpeakerEntry("Speaker 2", "Ann")>>,
                      <<SegmentEntry(NoId, "Speaker 2", NoId),
                        SegmentEntry(NoId, "Speaker 1", NoId),
                        SegmentEntry(NoId, "Speaker 9", NoId)>>),
         ResultObject(NULL, <<SpeakerEntry("Speaker 1", NULL)>>,
                      <<SegmentEntry(OtherSegment, "Speaker 1", NoId)>>) }

AttributedRuns == { Run(0, <<JsonLine(p)>>, <<>>) : p \in AttributedPayloads }

\* Two meetings exist; the other one is done and has one speaker and one
\* segment; the job of the meeting followed has been launched on its uploaded
\* audio.
InitAttribute ==
  LET first == ResetSpeakersInternal(<<>>, <<>>, 1, CountItems(2))
  IN /\ meetings = <<[status |-> "processing", startedAt |-> TRUE,
                      endedAt |-> TRUE, audioFilePath |-> UploadPath(1)],
                     [status |-> "done", startedAt |-> TRUE,
                      endedAt |-> TRUE, audioFilePath |-> NULL]>>
     /\ speakers = Append(first.speakers,
                          [id |-> OtherSpeaker, meetingId |-> OtherMeeting,
                           label |-> SpeakerLabel(1),
                           displayName |-> SpeakerLabel(1)])
     /\ segments = <<[id |-> OtherSegment, meetingId |-> OtherMeeting,
                      speakerId |-> OtherSpeaker, startMs |-> 0,
                      endMs |-> 1200, transcript |-> "hello"]>>
     /\ audioFiles = {UploadPath(1)}
     /\ outDirs = {1}
     /\ jsonFile = [m \in Meetings |-> AbsentFile]
     /\ microtasks = <<>>
     /\ running = [m \in Meetings |-> 1]
     /\ exports = [m \in Meetings |-> NoExports]
     /\ clock = 0
     /\ shell = NoShell
     /\ client = NoClient
     /\ last = NoLast

NextAttribute ==
  \/ \E m \in Meetings, run \in AttributedRuns :
       ProcessClose(m, run.code, run.stdout, run.stderr)
  \/ \E m \in Meetings, w \in WhisperModels : PostReprocess(m, w)
  \/ \E spawnOk \in BOOLEAN : HandleDiarizationStart(spawnOk)

SpecAttribute == InitAttribute /\ [][NextAttribute]_vars

StoredSegments(table, meetingId) ==
  SelectSeq(table, LAMBDA row : row.meetingId = meetingId)

\* The identities of the meeting's speakers that carry the label.
LabelHolders(roster, label) ==
  {roster[j].id : j \in {k \in DOMAIN roster : roster[k].label = label}}

\* The job that just resolved stored its result's speakers and segments.
StoredResult(m) ==
  /\ running'[m] < running[m]
  /\ last'.op = "close" /\ last'.meetingId = m /\ last'.error = NULL
  /\ HasItems(last'.payload, "speakers")
  /\ HasItems(last'.payload, "segments")

\* C30: every segment a job stores refers to the new speaker of the meeting
\* that carries the segment's speaker label, and to none when no speaker of
\* the new roster carries it.
C30_AttributedThroughLookup ==
  [][\A m \in Meetings :
       StoredResult(m) =>
         LET stored == StoredSegments(segments', m)
             roster == SpeakersOf(speakers', m)
             list == last'.payload.segments
         IN /\ Len(stored) = Len(list)
            /\ \A i \in DOMAIN list :
                 LET holders == LabelHolders(roster, list[i].speakerLabel)
                 IN IF holders = {} THEN stored[i].speakerId = NoId
                    ELSE stored[i].speakerId \in holders]_vars

\* ------------------------------------------------------------- model selection

\* What the desktop specifications leave alone: the server's state.
serverVars == <<meetings, speakers, segments, audioFiles, outDirs, jsonFile,
                microtasks, running, exports, clock>>

\* The server before any request.
ServerAtRest ==
  /\ meetings = <<>>
  /\ speakers = <<>>
  /\ segments = <<>>
  /\ audioFiles = {}
  /\ outDirs = {}
  /\ jsonFile = [m \in Meetings |-> AbsentFile]
  /\ microtasks = <<>>
  /\ running = [m \in Meetings |-> 0]
  /\ exports = [m \in Meetings |-> NoExports]
  /\ clock = 0

\* "medium.en" unless the environment names a model.
BuiltInModel == "medium.en"
DefaultWhisperModel(env) == IF Falsy(env) THEN BuiltInModel ELSE env

\* Some of the values of DIARIZATION_MODELS.
MenuModels == {"tiny", "base", "small", "medium.en"}

\* DIARIZATION_WHISPER_MODEL as the application is started: unset, empty or set.
StartEnvironments == {NULL, "", "base", "medium.en"}

\* loadSavedModelPreference: null without a readable file that holds a string,
\* else that string.
SavedPreferences == {NULL, "", "tiny", "medium.en"}

\* updateActiveModel; `written` tells whether persistModelPreference could
\* write the file (its failure is logged and swallowed).
UpdateActiveModel(state, model, persist, written) ==
  IF Falsy(model) THEN [changed |-> FALSE, state |-> state]
  ELSE IF model = state.active THEN [changed |-> FALSE, state |-> state]
  ELSE [changed |-> TRUE,
        state |-> [state EXCEPT !.active = model, !.env = model,
                                !.saved = IF persist /\ written THEN model ELSE @]]

\* The module has been loaded: activeWhisperModel is DEFAULT_WHISPER_MODEL.
InitShell ==
  /\ ServerAtRest
  /\ \E env \in StartEnvironments, saved \in SavedPreferences :
       shell = [op |-> "load", ready |-> FALSE, env |-> env, saved |-> saved,
                active |-> DefaultWhisperModel(env), prior |-> NULL,
                model |-> NULL, changed |-> FALSE, broadcast |-> FALSE]
  /\ client = NoClient
  /\ last = NoLast

\* app.whenReady().then(...)
WhenReady ==
  /\ ~shell.ready
  /\ LET savedModel == shell.saved
         updated == UpdateActiveModel(shell, savedModel, FALSE, FALSE)
         state == IF ~Falsy(savedModel) THEN updated.state
                  ELSE [shell EXCEPT !.env = shell.active]
     IN shell' = [state EXCEPT !.op = "ready", !.ready = TRUE,
                               !.prior = shell.active, !.model = savedModel,
                               !.changed = ~Falsy(savedModel) /\ updated.changed,
                               !.broadcast = FALSE]
  /\ UNCHANGED <<serverVars, client, last>>

\* click of a radio item of the Model menu
SelectModel(model, written) ==
  /\ shell.ready
  /\ LET updated == UpdateActiveModel(shell, model, TRUE, written)
     IN shell' = [updated.state EXCEPT !.op = "select", !.prior = shell.active,
                                       !.model = model,
                                       !.changed = updated.changed,
                                       !.broadcast = updated.changed]
  /\ UNCHANGED <<serverVars, client, last>>

NextShell ==
  \/ WhenReady
  \/ \E model \in MenuModels, written \in BOOLEAN : SelectModel(model, written)

SpecShell == InitShell /\ [][NextShell]_vars

\* Selecting the model that is active changes no model state and broadcasts
\* nothing.
ReselectingIsSilent ==
  (shell.ready /\ shell'.op = "select" /\ shell'.model = shell.active) =>
    /\ shell'.active = shell.active
    /\ shell'.env = shell.env
    /\ shell'.saved = shell.saved
    /\ ~shell'.broadcast

\* C31: once the application is ready, DIARIZATION_WHISPER_MODEL equals the
\* active Whisper model, whatever was saved and whatever is selected from the
\* menu; selecting the active model changes nothing and broadcasts nothing.
C31_EnvIsActiveModel ==
  /\ [](shell.ready => shell.env = shell.active)
  /\ [][ReselectingIsSilent]_vars

\* ------------------------------------------------------------- the page: reprocessing

\* What GET /api/meetings tells the page about a meeting.
ViewOf(m) ==
  [status |-> meetings[m].status,
   audioFilePath |-> meetings[m].audioFilePath,
   endedAt |-> meetings[m].endedAt,
   files |-> \E name \in {"txt", "srt", "csv"} :
               exports[m][name].kind # "absent"]

\* isReprocessing, canReprocessMeeting, canApplySpeakerNames of the page.
IsReprocessing == client.reprocessingMeetingId = client.selectedMeetingId
CanReprocessMeeting ==
  ~Falsy(client.view.audioFilePath) /\ client.view.endedAt
CanApplySpeakerNames == client.view.files

\* The Process Names button is not disabled.
ProcessNamesEnabled == CanApplySpeakerNames /\ ~IsReprocessing

\* The engine runs of this specification: a result, and a failure.
ClientRuns ==
  { Run(0, <<JsonLine(EngineResult)>>, <<>>), Run(1, <<>>, <<TraceLine>>) }

\* A processed meeting with its audio and its exports, selected in the page.
InitClient ==
  LET persisted == PersistPayload(<<>>, <<>>, 1, EngineResult)
  IN /\ meetings = <<[status |-> "done", startedAt |-> TRUE,
                      endedAt |-> TRUE, audioFilePath |-> UploadPath(1)]>>
     /\ speakers = persisted.speakers
     /\ segments = persisted.segments
     /\ audioFiles = {UploadPath(1)}
     /\ outDirs = {1}
     /\ jsonFile = [m \in Meetings |-> EngineResult]
     /\ microtasks = <<>>
     /\ running = [m \in Meetings |-> 0]
     /\ exports = [m \in Meetings |-> EngineExports(LF, TRUE)]
     /\ clock = 0
     /\ shell = NoShell
     /\ client = [op |-> "loaded", selectedMeetingId |-> 1,
                  reprocessingMeetingId |-> NoId, awaiting |-> "none",
                  ok |-> TRUE, error |-> "",
                  view |-> [status |-> "done", audioFilePath |-> UploadPath(1),
                            endedAt |-> TRUE, files |-> TRUE]]
     /\ last = NoLast

\* reprocessMeeting up to its first await, with the request handled by the server.
ReprocessMeeting(meetingId, modelOverride) ==
  /\ meetingId = client.selectedMeetingId
  /\ CanReprocessMeeting
  /\ client.reprocessingMeetingId = NoId
  /\ PostReprocessHandler(meetingId, modelOverride)
  /\ client' = [client EXCEPT !.op = "reprocess", !.error = "",
                              !.reprocessingMeetingId = meetingId,
                              !.awaiting = "response",
                              !.ok = last'.error = NULL]
  /\ UNCHANGED <<exports, clock, shell>>

\* The response of POST /reprocess arrives: a failure goes to catch and finally.
ReprocessResponded ==
  /\ Idle
  /\ client.awaiting = "response"
  /\ client' = IF client.ok
               THEN [client EXCEPT !.op = "responded", !.awaiting = "meetings"]
               ELSE [client EXCEPT !.op = "responded", !.awaiting = "none",
                                   !.error = "Unable to reprocess meeting",
                                   !.reprocessingMeetingId = NoId]
  /\ UNCHANGED <<serverVars, shell, last>>

\* await fetchMeetings() of reprocessMeeting
ReprocessFetchedMeetings ==
  /\ Idle
  /\ client.awaiting = "meetings"
  /\ client' = [client EXCEPT !.op = "meetings", !.awaiting = "transcript",
                              !.view = ViewOf(client.selectedMeetingId)]
  /\ UNCHANGED <<serverVars, shell, last>>

\* await fetchTranscript(meetingId), then the finally block
ReprocessFinished ==
  /\ Idle
  /\ client.awaiting = "transcript"
  /\ client' = [client EXCEPT !.op = "finally", !.awaiting = "none",
                              !.reprocessingMeetingId = NoId]
  /\ UNCHANGED <<serverVars, shell, last>>

\* The 10-second poll while a meeting is shown as processing.
PollMeetings ==
  /\ Idle
  /\ client.awaiting = "none"
  /\ client.view.status = "processing"
  /\ client.view # ViewOf(client.selectedMeetingId)
  /\ client' = [client EXCEPT !.op = "poll",
                              !.view = ViewOf(client.selectedMeetingId)]
  /\ UNCHANGED <<serverVars, shell, last>>

\* A click on Process Names while the button is enabled.
ClickProcessNames(meetingId) ==
  /\ meetingId = client.selectedMeetingId
  /\ ProcessNamesEnabled
  /\ ApplySpeakerNames(meetingId)

NextClient ==
  \/ \E m \in Meetings, w \in WhisperModels : ReprocessMeeting(m, w)
  \/ ReprocessResponded
  \/ ReprocessFetchedMeetings
  \/ ReprocessFinished
  \/ PollMeetings
  \/ \E m \in Meetings : ClickProcessNames(m)
  \/ \E spawnOk \in BOOLEAN : HandleDiarizationStart(spawnOk)
  \/ \E m \in Meetings, run \in ClientRuns :
       ProcessClose(m, run.code, run.stdout, run.stderr)
  \/ \E a \in AudioPaths : AudioVanishes(a)

SpecClient == InitClient /\ [][NextClient]_vars

\* A job of the meeting is queued or its process is running.
JobInFlight(m) ==
  \/ running[m] > 0
  \/ \E i \in DOMAIN microtasks : microtasks[i].meetingId = m

\* While a reprocess job of the selected meeting is in flight the banner is
\* shown and Process Names is disabled.
BannerWhileJobInFlight ==
  JobInFlight(client.selectedMeetingId) =>
    IsReprocessing /\ ~ProcessNamesEnabled

\* The step is an export-sync started from the page.
SyncFromPage ==
  last'.op = "apply" /\ client' = client /\ audioFiles' = audioFiles

\* C32: from the request of a reprocess of the selected meeting until its job
\* has finished, the banner is shown and Process Names is disabled, so that
\* no export-sync is started from the page while the job is in flight.
C32_SpeakerToolsLockedDuringJob ==
  /\ []BannerWhileJobInFlight
  /\ [][SyncFromPage => ~JobInFlight(client.selectedMeetingId)]_vars

\* ------------------------------------------------------------- reads of a meeting

\* GET /api/meetings: a meeting of the list with its speakers, as listMeetings
\* returns them, and with them the segment rows the database holds for it.
\* What the last job left in `last` is kept while only reads follow it.
GetMeeting(meetingId) ==
  /\ Idle
  /\ meetingId \in Created
  /\ last' = [(IF last.op \in {"close", "read"} /\ last.meetingId = meetingId
               THEN last ELSE NoLast)
              EXCEPT !.op = "read", !.meetingId = meetingId,
                     !.seen = <<meetings[meetingId].status,
                                SpeakersOf(speakers, meetingId),
                                StoredSegments(segments, meetingId)>>]
  /\ UNCHANGED <<exportVars, meetings, speakers, segments, audioFiles, outDirs,
                 jsonFile, microtasks, running>>

NextRead ==
  \/ Next
  \/ \E m \in Meetings : GetMeeting(m)

SpecRead == Init /\ [][NextRead]_vars

\* The read follows a job of the meeting that wrote done, with nothing but
\* reads in between.
ReadsDoneOfLastJob ==
  /\ last.op = "read"
  /\ last.outcome = "done"
  /\ last.seen[1] = "done"

\* C33: a read that observes the status done written by a job observes the
\* roster and the segments of that job's result, never those from before the
\* job: done is written after both replacements, with no request in between.
C33_DoneReadWithJobsRows ==
  ReadsDoneOfLastJob =>
    /\ RosterIsResult(last.seen[2], ResultSpeakers(last.payload))
    /\ SegmentsAreResult(last.seen[3], ResultSegments(last.payload))

\* ------------------------------------------------------------- failed jobs

\* The step ends a job of the meeting in failed: at its launch, or when its
\* process has exited.
JobFails(m) ==
  /\ last'.meetingId = m
  /\ last'.outcome = "failed"
  /\ \/ last'.op = "launch" /\ Len(microtasks') < Len(microtasks)
     \/ last'.op = "close" /\ running'[m] < running[m]

\* C34: a job that ends in failed leaves the speakers and the segments of its
\* meeting as they were; only the status changes.
C34_FailedJobKeepsRows ==
  [][\A m \in Meetings :
       JobFails(m) =>
         /\ SpeakersOf(speakers', m) = SpeakersOf(speakers, m)
         /\ StoredSegments(segments', m) = StoredSegments(segments, m)]_vars

\* ------------------------------------------------------------- several meetings

\* C35: every segment that refers to a speaker refers to a speaker of its own
\* meeting.
C35_SegmentSpeakerOfSameMeeting ==
  \A i \in DOMAIN segments :
    segments[i].speakerId # NoId =>
      \E j \in DOMAIN speakers :
        /\ speakers[j].id = segments[i].speakerId
        /\ speakers[j].meetingId = segments[i].meetingId

\* The rows of every meeting but m.
OtherRows(table, m) == SelectSeq(table, LAMBDA row : row.meetingId # m)

\* The status the job would write if the tables held the rows of its own
\* meeting only.
OutcomeAlone(m, record) ==
  IF record.error \notin {NULL, "PersistenceError"} THEN "failed"
  ELSE LET persisted == PersistPayload(SpeakersOf(speakers, m),
                                       StoredSegments(segments, m), m,
                                       record.payload)
       IN JobStatus(IF persisted.threw THEN "PersistenceError" ELSE NULL,
                    record.payload)

\* C36: the completion of a job of meeting m leaves status, speakers and
\* segments of every other meeting unchanged, and its outcome is the one it
\* would have without the rows of the other meetings.
C36_JobsOfMeetingsIndependent ==
  [][\A m \in Meetings :
       (running'[m] < running[m] /\ last'.op = "close" /\ last'.meetingId = m) =>
         /\ \A o \in Created \ {m} : meetings'[o] = meetings[o]
         /\ OtherRows(speakers', m) = OtherRows(speakers, m)
         /\ OtherRows(segments', m) = OtherRows(segments, m)
         /\ last'.outcome = OutcomeAlone(m, last')]_vars

\* ------------------------------------------------------------- simultaneous mapping

\* C37: a sync rewrites the cues of the transcript as they stood before it:
\* a cue of the mapped label L ends up as the display name mapped to L, also
\* when that name is the stable label of another mapped speaker.
C37_CuesMappedSimultaneously ==
  [][\A m \in Meetings :
       (/\ last'.op = "apply" /\ last'.meetingId = m /\ clock' = clock
        /\ last'.outcome = "200"
        /\ exports[m].txt.kind = "text") =>
         LET before == exports[m].txt.content
             after == exports'[m].txt.content
         IN /\ exports'[m].txt.kind = "text"
            /\ Len(after) = Len(before)
            /\ \A index \in DOMAIN before :
                 \A label \in MappedLabels(m) :
                   IsCue(before, index, label)
                     => after[index] = MappedName(m, label)]_vars

\* The identities of the speakers in a meeting's roster.
RosterIds(meetingId) ==
  {SpeakersOf(speakers, meetingId)[i].id :
     i \in DOMAIN SpeakersOf(speakers, meetingId)}

\* C38: a rename request with a usable name whose speaker identity is not in
\* the meeting's roster is answered with 404 'Speaker not found' and leaves
\* every speaker row of every meeting as it was.
C38_UnknownSpeakerRejected ==
  [][\A m \in Meetings, id \in 1..MaxSpeakers, name \in RenameInputs :
       (/\ RenameSpeaker(m, id, name)
        /\ ~(Falsy(name) \/ Falsy(Trim(name)))
        /\ id \notin RosterIds(m)) =>
         /\ last'.outcome = "404"
         /\ speakers' = speakers]_vars

\* The part of C38 about the rows alone.
C38_UnknownSpeakerNoRowChanges ==
  [][\A m \in Meetings, id \in 1..MaxSpeakers, name \in RenameInputs :
       (/\ RenameSpeaker(m, id, name)
        /\ id \notin RosterIds(m)) => speakers' = speakers]_vars

\* ---------------------------------------------------------------------------
\* POST /api/meetings/:meetingId/speakers/sync-count

\* The cap of the route on the number of speakers it asks for.
MaxSyncCount == 50

\* Number(count) of the request bodies: NaN for a body without a usable
\* number, or a number given in tenths (25 is 2.5).
SyncCounts ==
  {[finite |-> FALSE, tenths |-> 0]}
    \cup {[finite |-> TRUE, tenths |-> t] : t \in {0, 5, 10, 25, 30, 510}}

\* Math.min(50, Math.floor(numericCount)), the count in tenths.
SafeCount(tenths) ==
  IF tenths \div 10 < MaxSyncCount THEN tenths \div 10 ELSE MaxSyncCount

\* The route: the meeting is looked up, the count validated and capped, and
\* storage.ensureSpeakerCount called. The storage module defines and exports
\* no such function, so the call throws a TypeError before any statement of
\* the database runs, and the error middleware answers 500.
PostSyncCount(meetingId, numericCount) ==
  /\ Idle
  /\ meetingId \in Created
  /\ IF ~numericCount.finite \/ numericCount.tenths < 10
     THEN last' = [NoLast EXCEPT !.op = "sync-count", !.meetingId = meetingId,
                                 !.outcome = "400"]
     ELSE last' = [NoLast EXCEPT !.op = "sync-count", !.meetingId = meetingId,
                                 !.count = SafeCount(numericCount.tenths),
                                 !.error = "TypeError", !.outcome = "500"]
  /\ UNCHANGED <<exportVars, meetings, speakers, segments, audioFiles, outDirs,
                 jsonFile, microtasks, running>>

NextSync ==
  \/ NextRoster
  \/ \E m \in Meetings, count \in SyncCounts : PostSyncCount(m, count)

SpecSync == Init /\ [][NextSync]_vars

\* C39: a sync-count request with a count of at least 1 on an existing meeting
\* is answered with 200 and leaves the meeting with at least
\* min(50, floor(count)) speakers, every speaker it had before still there
\* with its name.
C39_SyncCountFillsRoster ==
  [][\A m \in Meetings, count \in SyncCounts :
       (PostSyncCount(m, count) /\ count.finite /\ count.tenths >= 10) =>
         /\ last'.outcome = "200"
         /\ Len(SpeakersOf(speakers', m)) >= SafeCount(count.tenths)
         /\ \A i \in DOMAIN speakers : \E j \in DOMAIN speakers' :
              speakers'[j] = speakers[i]]_vars

\* The part of C39 about the speakers the meeting already has.
C39_SyncCountKeepsSpeakers ==
  [][last'.op = "sync-count" => speakers' = speakers]_vars

\* ---------------------------------------------------------------------------
\* The recorder of the client: one set of refs (recorder, stream, timer) and
\* one recording-meeting marker shared by every recording. The server is held
\* at rest; what its answers decide for the client is drawn from BOOLEAN.

\* The meetings of the list the user records; the model follows one recording
\* per meeting at a time.
RecordedMeetings == {1, OtherMeeting}

\* MediaRecorder and MediaStream of the platform: when the tracks of a stream
\* are stopped, a recorder still recording from it goes inactive and its
\* stop event is queued.
StopTracks(c, meetingId) ==
  IF meetingId = NoId THEN c
  ELSE [c EXCEPT !.streamLive[meetingId] = FALSE,
                 !.recorderState[meetingId] =
                   IF @ = "recording" THEN "inactive" ELSE @,
                 !.stopEvents =
                   IF c.recorderState[meetingId] = "recording"
                   THEN @ \cup {meetingId} ELSE @]

\* cleanupRecording()
CleanupRecording(c) ==
  [StopTracks(c, c.mediaStreamRef) EXCEPT !.recordingTimerRef = NoId,
                                          !.mediaStreamRef = NoId,
                                          !.mediaRecorderRef = NoId,
                                          !.recordingMeetingId = NoId]

\* stopRecording(meetingId): it has no await, so it runs to its end at once.
StopRecordingOf(c, meetingId) ==
  LET cleared == [c EXCEPT !.recordingTimerRef = NoId]
      recorder == c.mediaRecorderRef
  IN IF recorder = NoId \/ c.recordingMeetingId # meetingId
     THEN CleanupRecording(cleared)
     ELSE LET stopped ==
                IF c.recorderState[recorder] # "inactive"
                THEN [cleared EXCEPT !.recorderState[recorder] = "inactive",
                                     !.stopEvents = @ \cup {recorder}]
                ELSE CleanupRecording(cleared)
          IN [StopTracks(stopped, stopped.mediaStreamRef)
                EXCEPT !.mediaStreamRef = NoId]

InitRecorder ==
  /\ ServerAtRest
  /\ shell = NoShell
  /\ last = NoLast
  /\ client = [op |-> "loaded", meetingId |-> NoId,
               recordingMeetingId |-> NoId, mediaRecorderRef |-> NoId,
               mediaStreamRef |-> NoId, recordingTimerRef |-> NoId,
               recorderState |-> [m \in RecordedMeetings |-> "none"],
               streamLive |-> [m \in RecordedMeetings |-> FALSE],
               stopEvents |-> {}, completing |-> {}, starting |-> NoId,
               error |-> ""]

\* The Start Meeting button of a meeting that is not the one marked as
\* recording: beginRecording up to its first await that yields, the recording
\* of another meeting stopped first.
BeginRecording(meetingId) ==
  /\ client.recordingMeetingId # meetingId
  /\ client.starting = NoId
  /\ meetingId \notin client.stopEvents \cup client.completing
  /\ LET stopped == IF client.recordingMeetingId # NoId
                    THEN StopRecordingOf(client, client.recordingMeetingId)
                    ELSE client
     IN client' = [stopped EXCEPT !.op = "begin", !.meetingId = meetingId,
                                  !.starting = meetingId, !.error = ""]
  /\ UNCHANGED <<serverVars, shell, last>>

\* beginRecording after ensureMeetingStarted and getUserMedia: the recorder
\* is created, stored in the refs and started, or the failure cleans up.
BeginRecordingResumes(ok) ==
  /\ client.starting # NoId
  /\ client.starting \notin client.stopEvents \cup client.completing
  /\ LET meetingId == client.starting
     IN client' =
          IF ok
          THEN [client EXCEPT !.op = "started", !.meetingId = meetingId,
                              !.starting = NoId,
                              !.recorderState[meetingId] = "recording",
                              !.streamLive[meetingId] = TRUE,
                              !.mediaRecorderRef = meetingId,
                              !.mediaStreamRef = meetingId,
                              !.recordingMeetingId = meetingId,
                              !.recordingTimerRef = meetingId]
          ELSE [CleanupRecording(client) EXCEPT !.op = "start-failed",
                                                !.meetingId = meetingId,
                                                !.starting = NoId,
                                                !.error = "Unable to start recording"]
  /\ UNCHANGED <<serverVars, shell, last>>

\* The Stop button, shown for the meeting marked as recording.
StopRecording(meetingId) ==
  /\ client.recordingMeetingId = meetingId
  /\ client' = [StopRecordingOf(client, meetingId)
                  EXCEPT !.op = "stop", !.meetingId = meetingId]
  /\ UNCHANGED <<serverVars, shell, last>>

\* The stop event of a recorder: handleRecordingComplete up to its first
\* await; without chunks it throws at once and its finally cleans up.
RecorderStopped(meetingId, captured) ==
  /\ meetingId \in client.stopEvents
  /\ LET taken == [client EXCEPT !.stopEvents = @ \ {meetingId}]
     IN client' =
          IF captured
          THEN [taken EXCEPT !.op = "saving", !.meetingId = meetingId,
                             !.completing = @ \cup {meetingId}]
          ELSE [CleanupRecording(taken)
                  EXCEPT !.op = "complete", !.meetingId = meetingId,
                         !.error = "Recording did not capture any audio"]
  /\ UNCHANGED <<serverVars, shell, last>>

\* handleRecordingComplete after its awaits (the save, POST /end, the
\* refetch): the error is cleared when they succeeded and set when one of
\* them threw, and either way finally { cleanupRecording() } runs.
RecordingComplete(meetingId, ok) ==
  /\ meetingId \in client.completing
  /\ client' = [CleanupRecording([client EXCEPT !.completing = @ \ {meetingId}])
                  EXCEPT !.op = "complete", !.meetingId = meetingId,
                         !.error = IF ok THEN "" ELSE "Unable to save recording"]
  /\ UNCHANGED <<serverVars, shell, last>>

NextRecorder ==
  \/ \E m \in RecordedMeetings : BeginRecording(m)
  \/ \E ok \in BOOLEAN : BeginRecordingResumes(ok)
  \/ \E m \in RecordedMeetings : StopRecording(m)
  \/ \E m \in RecordedMeetings, captured \in BOOLEAN : RecorderStopped(m, captured)
  \/ \E m \in RecordedMeetings, ok \in BOOLEAN : RecordingComplete(m, ok)

SpecRecorder == InitRecorder /\ [][NextRecorder]_vars

\* A recorder is active for the meeting: it is the one in the refs, it
\* records from a live stream, the timer runs and the marker names it.
RecorderActive(c, meetingId) ==
  /\ c.recordingMeetingId = meetingId
  /\ c.mediaRecorderRef = meetingId /\ c.recorderState[meetingId] = "recording"
  /\ c.mediaStreamRef = meetingId /\ c.streamLive[meetingId]
  /\ c.recordingTimerRef = meetingId

\* C40: while a recorder is active for a meeting, the completion handling of
\* the recording of another meeting leaves that recorder, its stream, the
\* timer and the recording-meeting marker as they were.
C40_CompletionSparesOtherRecording ==
  [][\A a, b \in RecordedMeetings :
       (/\ a # b
        /\ RecorderActive(client, b)
        /\ client'.op = "complete" /\ client'.meetingId = a
        /\ \/ \E ok \in BOOLEAN : RecordingComplete(a, ok)
           \/ \E captured \in BOOLEAN : RecorderStopped(a, captured))
         => RecorderActive(client', b)]_vars

====
